---------------------------- MODULE Spec2Model ----------------------------
(***************************************************************************)
(* Payroll computation and payment-status tracking of the ERP backend      *)
(* (app/api/routes/payroll.py and payroll2.py).                            *)
(*                                                                         *)
(* Conventions of the model:                                               *)
(*   - a Python str is a sequence of one-character strings, so that        *)
(*     strip(), lower(), split() and int() are computed, not assumed;      *)
(*   - a nullable column or field is Nil (None / NULL) or Some(v);         *)
(*   - a float is an exact rational [n, d] in lowest terms (rounding of    *)
(*     IEEE doubles is not modelled);                                      *)
(*   - a date is the triple <<year, month, day>> of the proleptic          *)
(*     Gregorian calendar, as datetime.date;                               *)
(*   - inflight holds the requests that run concurrently, each with its    *)
(*     position and the row its lookup returned; it is empty where         *)
(*     requests run one after the other.                                   *)
(***************************************************************************)
EXTENDS Integers, Sequences, FiniteSets, TLC

VARIABLES employees, attendance, sheets, advances, payment, resp, inflight

vars == <<employees, attendance, sheets, advances, payment, resp, inflight>>

-----------------------------------------------------------------------------
(* Nullable values *)

Nil == <<>>
Some(v) == <<v>>
IsNil(o) == o = <<>>
Val(o) == o[1]

-----------------------------------------------------------------------------
(* Strings *)

Whitespace == {" ", "\t", "\n"}
UpperCase == <<"A","B","C","D","E","F","G","H","I","J","K","L","M",
               "N","O","P","Q","R","S","T","U","V","W","X","Y","Z">>
LowerCase == <<"a","b","c","d","e","f","g","h","i","j","k","l","m",
               "n","o","p","q","r","s","t","u","v","w","x","y","z">>
Digits == <<"0","1","2","3","4","5","6","7","8","9">>

LowerChar(c) ==
  IF \E i \in 1..Len(UpperCase) : UpperCase[i] = c
  THEN LowerCase[CHOOSE i \in 1..Len(UpperCase) : UpperCase[i] = c]
  ELSE c

\* str.lower()
Lower(s) == [i \in 1..Len(s) |-> LowerChar(s[i])]

\* str.strip(): drops leading and trailing whitespace
RECURSIVE LStrip(_)
LStrip(s) ==
  IF s # <<>> /\ Head(s) \in Whitespace THEN LStrip(Tail(s)) ELSE s

RECURSIVE RStrip(_)
RStrip(s) ==
  IF s # <<>> /\ s[Len(s)] \in Whitespace
  THEN RStrip(SubSeq(s, 1, Len(s) - 1))
  ELSE s

Strip(s) == RStrip(LStrip(s))

\* str.split(sep) for a one-character separator: the sequence of the parts
RECURSIVE SplitAcc(_, _, _)
SplitAcc(s, sep, cur) ==
  IF s = <<>> THEN <<cur>>
  ELSE IF Head(s) = sep THEN <<cur>> \o SplitAcc(Tail(s), sep, <<>>)
  ELSE SplitAcc(Tail(s), sep, Append(cur, Head(s)))

Split(s, sep) == SplitAcc(s, sep, <<>>)

IsDigit(c) == \E i \in 1..10 : Digits[i] = c
DigitVal(c) == (CHOOSE i \in 1..10 : Digits[i] = c) - 1

RECURSIVE DigitsValue(_, _)
DigitsValue(s, acc) ==
  IF s = <<>> THEN acc ELSE DigitsValue(Tail(s), 10 * acc + DigitVal(Head(s)))

\* int(str): surrounding whitespace and one sign are accepted, then digits
\* only; Nil stands for the ValueError
ParseInt(s) ==
  LET t == Strip(s)
      signed == t # <<>> /\ Head(t) \in {"+", "-"}
      body == IF signed THEN Tail(t) ELSE t
  IN IF body = <<>> \/ \E i \in 1..Len(body) : ~IsDigit(body[i])
     THEN Nil
     ELSE Some(IF signed /\ Head(t) = "-"
               THEN 0 - DigitsValue(body, 0)
               ELSE DigitsValue(body, 0))

\* str(n) for n >= 0
RECURSIVE NatStr(_)
NatStr(n) ==
  IF n < 10 THEN <<Digits[n + 1]>>
  ELSE Append(NatStr(n \div 10), Digits[(n % 10) + 1])

IntStr(n) == IF n < 0 THEN <<"-">> \o NatStr(0 - n) ELSE NatStr(n)

\* f"{n:0{width}d}" for n >= 0
RECURSIVE ZeroPad(_, _)
ZeroPad(s, width) == IF Len(s) >= width THEN s ELSE ZeroPad(<<"0">> \o s, width)

-----------------------------------------------------------------------------
(* Floats, as exact rationals *)

RECURSIVE Gcd(_, _)
Gcd(a, b) == IF b = 0 THEN a ELSE Gcd(b, a % b)

Abs(x) == IF x < 0 THEN 0 - x ELSE x

Rat(n, d) ==
  LET g == Gcd(Abs(n), Abs(d))
      s == IF d < 0 THEN 0 - 1 ELSE 1
  IN [n |-> (s * n) \div g, d |-> (s * d) \div g]

FromInt(i) == [n |-> i, d |-> 1]
Zero == FromInt(0)
RAdd(a, b) == Rat(a.n * b.d + b.n * a.d, a.d * b.d)
RSub(a, b) == Rat(a.n * b.d - b.n * a.d, a.d * b.d)
RMul(a, b) == Rat(a.n * b.n, a.d * b.d)
RDiv(a, b) == Rat(a.n * b.d, a.d * b.n)
RIsZero(a) == a.n = 0
RPos(a) == a.n > 0

-----------------------------------------------------------------------------
(* Dates *)

IsLeap(y) == (y % 4 = 0) /\ ((y % 100 # 0) \/ (y % 400 = 0))

\* calendar.monthrange(year, month)[1]
MonthRange(y, m) ==
  IF m = 2 THEN (IF IsLeap(y) THEN 29 ELSE 28)
  ELSE IF m \in {4, 6, 9, 11} THEN 30 ELSE 31

\* date(y, m, d) raises ValueError unless this holds
ValidDate(y, m, d) ==
  /\ y \in 1..9999
  /\ m \in 1..12
  /\ d \in 1..MonthRange(y, m)

DateLT(a, b) ==
  \/ a[1] < b[1]
  \/ a[1] = b[1] /\ a[2] < b[2]
  \/ a[1] = b[1] /\ a[2] = b[2] /\ a[3] < b[3]

DateLE(a, b) == a = b \/ DateLT(a, b)

\* date.toordinal(): days since 0001-01-01, counted from 1
RECURSIVE DaysBeforeMonth(_, _)
DaysBeforeMonth(y, m) ==
  IF m <= 1 THEN 0 ELSE DaysBeforeMonth(y, m - 1) + MonthRange(y, m - 1)

Ordinal(d) ==
  LET y == d[1] - 1
  IN y * 365 + (y \div 4) - (y \div 100) + (y \div 400)
     + DaysBeforeMonth(d[1], d[2]) + d[3]

\* _days_inclusive(start, end)
DaysInclusive(start, end) == (Ordinal(end) - Ordinal(start)) + 1

\* d + timedelta(days=k), k >= 0
RECURSIVE AddDays(_, _)
AddDays(d, k) ==
  LET left == MonthRange(d[1], d[2]) - d[3]
  IN IF k <= left THEN <<d[1], d[2], d[3] + k>>
     ELSE AddDays(IF d[2] < 12 THEN <<d[1], d[2] + 1, 1>> ELSE <<d[1] + 1, 1, 1>>,
                  k - (left + 1))

\* the days visited by "dcur = start; while dcur <= end: ...; dcur += 1 day"
DaysFrom(start, end) ==
  [i \in 1..(IF DateLE(start, end) THEN DaysInclusive(start, end) ELSE 0)
     |-> AddDays(start, i - 1)]

\* _last_day_of_month(d)
LastDayOfMonth(d) == <<d[1], d[2], MonthRange(d[1], d[2])>>

\* _month_label(d): f"{d.year:04d}-{d.month:02d}"
MonthLabel(d) == ZeroPad(NatStr(d[1]), 4) \o <<"-">> \o ZeroPad(NatStr(d[2]), 2)

\* datetime.time.max and datetime.combine(date, time.max); a datetime is
\* [date, time] with time = <<hour, minute, second, microsecond>>
TimeMax == <<23, 59, 59, 999999>>
EndOfDay(d) == [date |-> d, time |-> TimeMax]

TimeLE(a, b) ==
  \/ a = b
  \/ \E i \in 1..4 : a[i] < b[i] /\ \A j \in 1..(i - 1) : a[j] = b[j]

DateTimeLE(a, b) ==
  \/ DateLT(a.date, b.date)
  \/ a.date = b.date /\ TimeLE(a.time, b.time)

\* _parse_month(month): [ok, start, end]; ok = FALSE is the HTTP 400
\* "month must be in YYYY-MM format"
ParseMonth(month) ==
  LET parts == Split(month, "-")
      bad == [ok |-> FALSE, start |-> Nil, end |-> Nil]
  IN IF Len(parts) # 2 THEN bad
     ELSE LET year == ParseInt(parts[1])
              mm == ParseInt(parts[2])
          IN IF IsNil(year) \/ IsNil(mm) THEN bad
             ELSE IF Val(mm) < 1 \/ Val(mm) > 12 THEN bad
             ELSE [ok |-> TRUE,
                   start |-> <<Val(year), Val(mm), 1>>,
                   end |-> <<Val(year), Val(mm), MonthRange(Val(year), Val(mm))>>]

\* _parse_date(d, field): Nil is the HTTP 400 "<field> must be in YYYY-MM-DD format"
ParseDate(d) ==
  LET parts == Split(d, "-")
  IN IF Len(parts) # 3 THEN Nil
     ELSE LET y == ParseInt(parts[1])
              m == ParseInt(parts[2])
              dd == ParseInt(parts[3])
          IN IF IsNil(y) \/ IsNil(m) \/ IsNil(dd) THEN Nil
             ELSE IF ~ValidDate(Val(y), Val(m), Val(dd)) THEN Nil
             ELSE Some(<<Val(y), Val(m), Val(dd)>>)

\* float(str) for the literals [sign] digits [. digits]; Nil is the ValueError
\* (exponents, inf, nan and underscores are outside the modelled inputs)
ParseFloat(s) ==
  LET t == Strip(s)
      signed == t # <<>> /\ Head(t) \in {"+", "-"}
      body == IF signed THEN Tail(t) ELSE t
      parts == Split(body, ".")
      allDigits(p) == \A i \in 1..Len(p) : IsDigit(p[i])
      sgn == IF signed /\ Head(t) = "-" THEN 0 - 1 ELSE 1
  IN IF Len(parts) = 1 /\ parts[1] # <<>> /\ allDigits(parts[1])
     THEN Some(FromInt(sgn * DigitsValue(parts[1], 0)))
     ELSE IF /\ Len(parts) = 2
             /\ allDigits(parts[1]) /\ allDigits(parts[2])
             /\ parts[1] \o parts[2] # <<>>
     THEN Some(Rat(sgn * DigitsValue(parts[1] \o parts[2], 0),
                   DigitsValue(<<"1">> \o [i \in 1..Len(parts[2]) |-> "0"], 0)))
     ELSE Nil

\* _to_float(v) for a nullable text column
ToFloat(v) ==
  IF IsNil(v) THEN Zero
  ELSE IF Strip(Val(v)) = <<>> THEN Zero
  ELSE LET f == ParseFloat(Val(v)) IN IF IsNil(f) THEN Zero ELSE Val(f)

\* Python truth value of a nullable str: None and "" are false
Truthy(o) == ~IsNil(o) /\ Val(o) # <<>>

\* (o or "")
OrEmpty(o) == IF IsNil(o) THEN <<>> ELSE Val(o)


-----------------------------------------------------------------------------
(* Store queries *)

(* The records of the store:                                               *)
(*   employee   [id, serial_no, fss_no, salary, created_at]                *)
(*   attendance [employee_id, date, status, leave_type, overtime_minutes,  *)
(*               overtime_rate, late_minutes, late_deduction, fine_amount] *)
(*              (a NULL number is 0: the code only tests these by truth)   *)
(*   sheet      [employee_db_id, from_date, to_date, pre_days_override,    *)
(*               cur_days_override, leave_encashment_days, allow_other,    *)
(*               eobi, tax, fine_adv_extra, remarks, bank_cash]            *)
(*   advance    [employee_db_id, month, amount]                            *)
(*   payment    [month, employee_id, status, employee_db_id,               *)
(*               net_pay_snapshot]                                         *)
(* employees and attendance are sequences: the order the store returns     *)
(* them in when the query states none.                                     *)

\* code point order of the characters of the model (string collation "C")
CharOrder == <<"\t", "\n", " ", "(", ")", "+", ",", "-", ".", "/">> \o Digits
             \o <<":">> \o UpperCase \o <<"_">> \o LowerCase
CharRank(c) == CHOOSE i \in 1..Len(CharOrder) : CharOrder[i] = c

RECURSIVE StrLT(_, _)
StrLT(a, b) ==
  IF b = <<>> THEN FALSE
  ELSE IF a = <<>> THEN TRUE
  ELSE IF Head(a) = Head(b) THEN StrLT(Tail(a), Tail(b))
  ELSE CharRank(Head(a)) < CharRank(Head(b))

\* sorted(seq, key=...): a stable sort by the integer keys key[i] of seq[i]
StableSort(seq, key) ==
  LET n == Len(seq)
      pos(i) == Cardinality({j \in 1..n : key[j] < key[i]})
                + Cardinality({j \in 1..(i - 1) : key[j] = key[i]}) + 1
  IN [p \in 1..n |-> seq[CHOOSE i \in 1..n : pos(i) = p]]

\* the filter with the cutoff at the start of the last day instead of its end
EligibleFromMidnight(e, end) ==
  IsNil(e.created_at)
    \/ DateTimeLE(Val(e.created_at), [date |-> end, time |-> <<0, 0, 0, 0>>])

\* filter(or_(created_at == None, created_at <= cutoff))
Eligible(e, end) ==
  IsNil(e.created_at) \/ DateTimeLE(Val(e.created_at), EndOfDay(end))

\* ORDER BY serial_no ASC: string order, NULL last, ties in store order
SerialBefore(a, b) ==
  /\ ~IsNil(a.serial_no)
  /\ IsNil(b.serial_no) \/ StrLT(Val(a.serial_no), Val(b.serial_no))

OrderBySerial(seq) ==
  StableSort(seq, [i \in 1..Len(seq) |->
                     Cardinality({j \in 1..Len(seq) : SerialBefore(seq[j], seq[i])})])

\* sort_key(e) of the range reports
SortKey(e) ==
  IF ~Truthy(e.serial_no) THEN 0
  ELSE LET k == ParseInt(Val(e.serial_no)) IN IF IsNil(k) THEN 999999 ELSE Val(k)

SortedBySortKey(seq) == StableSort(seq, [i \in 1..Len(seq) |-> SortKey(seq[i])])

\* filter(AttendanceRecord.date >= start, AttendanceRecord.date <= end).all()
AttendanceIn(start, end) ==
  SelectSeq(attendance, LAMBDA r : DateLE(start, r.date) /\ DateLE(r.date, end))

\* a lookup of the override by employee alone, whatever its period
SheetByEmployee(start, end, id) ==
  LET hit == {r \in sheets : r.employee_db_id = id}
  IN IF hit = {} THEN Nil ELSE Some(CHOOSE r \in hit : TRUE)

\* the dict comprehensions keyed by employee_db_id
SheetBy(start, end, id) ==
  LET hit == {r \in sheets :
                r.from_date = start /\ r.to_date = end /\ r.employee_db_id = id}
  IN IF hit = {} THEN Nil ELSE Some(CHOOSE r \in hit : TRUE)

AdvanceBy(month, id) ==
  LET hit == {r \in advances : r.month = month /\ r.employee_db_id = id}
  IN IF hit = {} THEN Zero ELSE (CHOOSE r \in hit : TRUE).amount

PAID == <<"p", "a", "i", "d">>
UNPAID == <<"u", "n", "p", "a", "i", "d">>

PaidStatusBy(month, employee_id) ==
  LET hit == {r \in payment : r.month = month /\ r.employee_id = employee_id}
  IN IF hit = {} THEN UNPAID ELSE (CHOOSE r \in hit : TRUE).status


-----------------------------------------------------------------------------
(* Attendance aggregation *)

PRESENT == <<"p", "r", "e", "s", "e", "n", "t">>
LATE == <<"l", "a", "t", "e">>
ABSENT == <<"a", "b", "s", "e", "n", "t">>
LEAVE == <<"l", "e", "a", "v", "e">>
UNMARKED == <<"u", "n", "m", "a", "r", "k", "e", "d">>

AccInit ==
  [present_days |-> 0, late_days |-> 0, absent_days |-> 0,
   paid_leave_days |-> 0, unpaid_leave_days |-> 0, unmarked_days |-> 0,
   overtime_minutes |-> 0, overtime_pay |-> Zero, overtime_rate |-> Zero,
   late_minutes |-> 0, late_deduction |-> Zero, fine_deduction |-> Zero,
   present_dates_prev |-> <<>>, present_dates_cur |-> <<>>]

\* (a.leave_type or "").lower().strip() == "unpaid"
IsUnpaidLeave(a) == Strip(Lower(OrEmpty(a.leave_type))) = UNPAID

\* the overtime and lateness accumulation shared by the three loops
MoneyStep(acc, a) ==
  LET both == a.overtime_minutes # 0 /\ ~RIsZero(a.overtime_rate)
  IN [acc EXCEPT
        !.overtime_minutes = IF both THEN @ + a.overtime_minutes ELSE @,
        !.overtime_pay =
           IF both
           THEN RAdd(@, RMul(Rat(a.overtime_minutes, 60), a.overtime_rate))
           ELSE @,
        !.overtime_rate =
           IF ~RIsZero(a.overtime_rate) /\ RPos(a.overtime_rate)
           THEN a.overtime_rate ELSE @,
        !.late_minutes = IF a.late_minutes # 0 THEN @ + a.late_minutes ELSE @,
        !.late_deduction =
           IF ~RIsZero(a.late_deduction) THEN RAdd(@, a.late_deduction) ELSE @]

\* "if a.fine_amount: fine_deduction += ..." of the range loops
FineStep(acc, a) ==
  [acc EXCEPT !.fine_deduction =
     IF ~RIsZero(a.fine_amount) THEN RAdd(@, a.fine_amount) ELSE @]

\* the status branch of payroll_report: an unrecognised status counts nowhere
MonthCount(acc, a) ==
  LET st == Strip(Lower(OrEmpty(a.status)))
  IN IF st = PRESENT THEN [acc EXCEPT !.present_days = @ + 1]
     ELSE IF st = LATE THEN [acc EXCEPT !.late_days = @ + 1]
     ELSE IF st = ABSENT THEN [acc EXCEPT !.absent_days = @ + 1]
     ELSE IF st = LEAVE
     THEN IF IsUnpaidLeave(a)
          THEN [acc EXCEPT !.unpaid_leave_days = @ + 1]
          ELSE [acc EXCEPT !.paid_leave_days = @ + 1]
     ELSE acc

\* a variant of RangeCount that counts an unrecognised status nowhere
RangeCountDropping(acc, a) ==
  LET st == Strip(Lower(IF Truthy(a.status) THEN Val(a.status) ELSE UNMARKED))
  IN IF st = PRESENT THEN [acc EXCEPT !.present_days = @ + 1]
     ELSE IF st = LATE THEN [acc EXCEPT !.late_days = @ + 1]
     ELSE IF st = ABSENT THEN [acc EXCEPT !.absent_days = @ + 1]
     ELSE IF st = LEAVE
     THEN IF IsUnpaidLeave(a)
          THEN [acc EXCEPT !.unpaid_leave_days = @ + 1]
          ELSE [acc EXCEPT !.paid_leave_days = @ + 1]
     ELSE acc

\* the status branch of payroll_range_report for a day with a record
RangeCount(acc, a) ==
  LET st == Strip(Lower(IF Truthy(a.status) THEN Val(a.status) ELSE UNMARKED))
  IN IF st = PRESENT THEN [acc EXCEPT !.present_days = @ + 1]
     ELSE IF st = LATE THEN [acc EXCEPT !.late_days = @ + 1]
     ELSE IF st = ABSENT THEN [acc EXCEPT !.absent_days = @ + 1]
     ELSE IF st = LEAVE
     THEN IF IsUnpaidLeave(a)
          THEN [acc EXCEPT !.unpaid_leave_days = @ + 1]
          ELSE [acc EXCEPT !.paid_leave_days = @ + 1]
     ELSE [acc EXCEPT !.unmarked_days = @ + 1]

\* dcur.strftime("%d %b")
MonthAbbr ==
  << <<"J","a","n">>, <<"F","e","b">>, <<"M","a","r">>, <<"A","p","r">>,
     <<"M","a","y">>, <<"J","u","n">>, <<"J","u","l">>, <<"A","u","g">>,
     <<"S","e","p">>, <<"O","c","t">>, <<"N","o","v">>, <<"D","e","c">> >>
DayMonthStr(d) == ZeroPad(NatStr(d[3]), 2) \o <<" ">> \o MonthAbbr[d[2]]

\* the status branch of payroll2_range_report for a day with a record
Range2Count(acc, a, end_month) ==
  LET st == Strip(Lower(OrEmpty(a.status)))
      mark(str) ==
        IF a.date[2] = end_month
        THEN [acc EXCEPT !.present_dates_cur = Append(@, str)]
        ELSE [acc EXCEPT !.present_dates_prev = Append(@, str)]
  IN IF st = PRESENT
     THEN [mark(DayMonthStr(a.date)) EXCEPT !.present_days = @ + 1]
     ELSE IF st = LATE
     THEN [mark(DayMonthStr(a.date) \o <<" ", "(", "L", ")">>)
             EXCEPT !.late_days = @ + 1]
     ELSE IF st = ABSENT THEN [acc EXCEPT !.absent_days = @ + 1]
     ELSE IF st = LEAVE
     THEN IF IsUnpaidLeave(a)
          THEN [acc EXCEPT !.unpaid_leave_days = @ + 1]
          ELSE [acc EXCEPT !.paid_leave_days = @ + 1]
     ELSE acc

\* "for a in by_emp.get(employee_id, [])" of payroll_report
RECURSIVE MonthLoop(_, _)
MonthLoop(acc, recs) ==
  IF recs = <<>> THEN acc
  ELSE MonthLoop(MoneyStep(MonthCount(acc, Head(recs)), Head(recs)), Tail(recs))

\* by_emp_by_date.get(employee_id, {}).get(dcur): the last record the store
\* returned for the stripped identifier and the day
ByEmpByDate(att, employee_id, d) ==
  LET hit == SelectSeq(att, LAMBDA r :
                 Strip(OrEmpty(r.employee_id)) = employee_id /\ r.date = d)
  IN IF hit = <<>> THEN Nil ELSE Some(hit[Len(hit)])

\* the records met by the day walk, in the order of the walk
Walked(att, employee_id, days) ==
  LET marked == SelectSeq(days, LAMBDA d : ~IsNil(ByEmpByDate(att, employee_id, d)))
  IN [i \in 1..Len(marked) |-> Val(ByEmpByDate(att, employee_id, marked[i]))]

\* "while dcur <= end" of payroll_range_report: a day without a record is
\* unmarked, a day with one goes through the status branch
RECURSIVE RangeMarked(_, _)
RangeMarked(acc, recs) ==
  IF recs = <<>> THEN acc
  ELSE RangeMarked(
         FineStep(MoneyStep(RangeCount(acc, Head(recs)), Head(recs)), Head(recs)),
         Tail(recs))

RangeLoop(att, employee_id, days) ==
  LET recs == Walked(att, employee_id, days)
  IN RangeMarked([AccInit EXCEPT !.unmarked_days = Len(days) - Len(recs)], recs)

\* "while dcur <= end" of payroll2_range_report: a day without a record is skipped
RECURSIVE Range2Marked(_, _, _)
Range2Marked(acc, recs, end_month) ==
  IF recs = <<>> THEN acc
  ELSE Range2Marked(
         FineStep(MoneyStep(Range2Count(acc, Head(recs), end_month), Head(recs)),
                  Head(recs)),
         Tail(recs), end_month)

Range2Loop(att, employee_id, days, end_month) ==
  Range2Marked(AccInit, Walked(att, employee_id, days), end_month)


-----------------------------------------------------------------------------
(* Reports *)

(* Each report is written as a chain of operators, one per stage of the    *)
(* loop body: a stage receives the values computed so far as parameters.   *)

Max0(i) == IF i < 0 THEN 0 ELSE i

Failed(error) == [ok |-> FALSE, error |-> error]

\* a variant of Totals that leaves the last row out of the net total
RECURSIVE TotalsShort(_, _)
TotalsShort(rows, i) ==
  IF i = 0 THEN [gross |-> Zero, net |-> Zero]
  ELSE [gross |-> RAdd(TotalsShort(rows, i - 1).gross, rows[i].gross_pay),
        net |-> IF i = Len(rows) THEN TotalsShort(rows, i - 1).net
                ELSE RAdd(TotalsShort(rows, i - 1).net, rows[i].net_pay)]

\* "total_gross += gross_pay; total_net += net_pay" over the rows, in order
RECURSIVE Totals(_, _)
Totals(rows, i) ==
  IF i = 0 THEN [gross |-> Zero, net |-> Zero]
  ELSE [gross |-> RAdd(Totals(rows, i - 1).gross, rows[i].gross_pay),
        net |-> RAdd(Totals(rows, i - 1).net, rows[i].net_pay)]

\* the values read from the sheet entry, with the "if sheet else" defaults
SheetFields(sheet) ==
  IF IsNil(sheet)
  THEN [has |-> FALSE, pre_days_override |-> Nil, cur_days_override |-> Nil,
        leave_encashment_days |-> 0, allow_other |-> Zero, eobi |-> Zero,
        tax |-> Zero, fine_adv_extra |-> Zero, remarks |-> Nil, bank_cash |-> Nil]
  ELSE [has |-> TRUE,
        pre_days_override |-> Val(sheet).pre_days_override,
        cur_days_override |-> Val(sheet).cur_days_override,
        leave_encashment_days |-> Val(sheet).leave_encashment_days,
        allow_other |-> Val(sheet).allow_other, eobi |-> Val(sheet).eobi,
        tax |-> Val(sheet).tax, fine_adv_extra |-> Val(sheet).fine_adv_extra,
        remarks |-> Val(sheet).remarks, bank_cash |-> Val(sheet).bank_cash]

(* ---- payroll_report ---- *)

\* e.fss_no or e.serial_no or str(e.id)
MonthEmployeeId(e) ==
  IF Truthy(e.fss_no) THEN Val(e.fss_no)
  ELSE IF Truthy(e.serial_no) THEN Val(e.serial_no)
  ELSE IntStr(e.id)

\* unpaid_leave_deduction = float(unpaid_leave_days) * 1000.0
UnpaidLeaveDeduction(unpaid_leave_days) ==
  RMul(FromInt(unpaid_leave_days), FromInt(1000))

\* gross_pay = base_salary + allowances + overtime_rate + overtime_pay
MonthGross(base_salary, allowances, overtime_rate, overtime_pay) ==
  RAdd(RAdd(RAdd(base_salary, allowances), overtime_rate), overtime_pay)

\* net_pay = gross_pay - late_deduction - unpaid_leave_deduction - adv_ded
MonthNet(gross_pay, late_deduction, unpaid_leave_deduction, adv_ded) ==
  RSub(RSub(RSub(gross_pay, late_deduction), unpaid_leave_deduction), adv_ded)

MonthRecord(e, employee_id, base_salary, acc, adv_ded, paid_status, unpaid_leave_deduction, gross_pay) ==
  [employee_db_id |-> e.id,
   employee_id |-> employee_id,
   serial_no |-> e.serial_no,
   fss_no |-> e.fss_no,
   base_salary |-> base_salary,
   allowances |-> Zero,
   present_days |-> acc.present_days,
   late_days |-> acc.late_days,
   absent_days |-> acc.absent_days,
   paid_leave_days |-> acc.paid_leave_days,
   unpaid_leave_days |-> acc.unpaid_leave_days,
   overtime_minutes |-> acc.overtime_minutes,
   overtime_pay |-> acc.overtime_pay,
   overtime_rate |-> acc.overtime_rate,
   late_minutes |-> acc.late_minutes,
   late_deduction |-> acc.late_deduction,
   unpaid_leave_deduction |-> unpaid_leave_deduction,
   advance_deduction |-> adv_ded,
   gross_pay |-> gross_pay,
   net_pay |-> MonthNet(gross_pay, acc.late_deduction, unpaid_leave_deduction,
                        adv_ded),
   paid_status |-> paid_status]

MonthPay(e, employee_id, base_salary, acc, adv_ded, paid_status) ==
  MonthRecord(e, employee_id, base_salary, acc, adv_ded, paid_status,
              UnpaidLeaveDeduction(acc.unpaid_leave_days),
              MonthGross(base_salary, Zero, acc.overtime_rate, acc.overtime_pay))

MonthRowOf(e, employee_id, month, att) ==
  MonthPay(e, employee_id, ToFloat(e.salary),
           MonthLoop(AccInit,
                     SelectSeq(att, LAMBDA r : r.employee_id = Some(employee_id))),
           AdvanceBy(month, e.id), PaidStatusBy(month, employee_id))

\* one pass of "for e in employees" of payroll_report
MonthRow(e, month, att) == MonthRowOf(e, MonthEmployeeId(e), month, att)

Response(month_label, rows, totals) ==
  [ok |-> TRUE, error |-> "none", month |-> month_label,
   summary |-> [month |-> month_label, employees |-> Len(rows),
                total_gross |-> totals.gross, total_net |-> totals.net],
   rows |-> rows]

MonthRows(month, emps, att) ==
  [i \in 1..Len(emps) |-> MonthRow(emps[i], month, att)]

MonthResponse(month, rows) == Response(month, rows, Totals(rows, Len(rows)))

MonthReportOf(month, p) ==
  IF ~p.ok THEN Failed("InvalidPeriod")
  ELSE MonthResponse(month,
         MonthRows(month,
                   OrderBySerial(SelectSeq(employees, LAMBDA e : Eligible(e, p.end))),
                   AttendanceIn(p.start, p.end)))

\* payroll_report(month)
PayrollReport(month) == MonthReportOf(month, ParseMonth(month))

(* ---- payroll_range_report ---- *)

\* str(e.fss_no or e.serial_no or e.id).strip()
RangeEmployeeId(e) ==
  Strip(IF Truthy(e.fss_no) THEN Val(e.fss_no)
        ELSE IF Truthy(e.serial_no) THEN Val(e.serial_no)
        ELSE IntStr(e.id))

\* day_rate = (base_salary / float(working_days)) if working_days > 0 else 0.0
DayRate(base_salary, working_days) ==
  IF working_days > 0 THEN RDiv(base_salary, FromInt(working_days)) ELSE Zero

\* a variant of TotalDays that leaves out the "if total_days < 0" clamp
TotalDaysUnclamped(present_days, late_days, leave_encashment_days) ==
  (present_days + late_days) + leave_encashment_days

\* total_days = int(presents_total + leave_encashment_days), not below 0
TotalDays(present_days, late_days, leave_encashment_days) ==
  Max0((present_days + late_days) + leave_encashment_days)

\* total_salary = float(total_days) * float(day_rate)
TotalSalary(total_days, day_rate) == RMul(FromInt(total_days), day_rate)

\* pre_days / cur_days of payroll_range_report: the override, not below 0
ClampedDays(override) == IF IsNil(override) THEN 0 ELSE Max0(Val(override))

\* payable_days
PayableDays(acc, working_days) ==
  IF acc.present_days + acc.late_days + acc.paid_leave_days > working_days
  THEN working_days
  ELSE acc.present_days + acc.late_days + acc.paid_leave_days

\* late_rate
LateRate(acc) ==
  IF acc.late_minutes > 0
  THEN RDiv(acc.late_deduction, FromInt(acc.late_minutes)) ELSE Zero

\* a variant of FineAdv that leaves out the attendance fines
FineAdvNoFine(fine_deduction, adv_ded, fine_adv_extra) ==
  RAdd(adv_ded, fine_adv_extra)

\* fine_adv = fine_deduction + adv_ded + fine_adv_extra
FineAdv(fine_deduction, adv_ded, fine_adv_extra) ==
  RAdd(RAdd(fine_deduction, adv_ded), fine_adv_extra)

\* gross_pay = total_salary + overtime_rate + overtime_pay + allowances + allow_other
RangeGross(total_salary, overtime_rate, overtime_pay, allowances, allow_other) ==
  RAdd(RAdd(RAdd(RAdd(total_salary, overtime_rate), overtime_pay), allowances),
       allow_other)

\* net_pay = gross_pay - eobi - tax - fine_adv - late_deduction - unpaid_leave_deduction
RangeNet(gross_pay, eobi, tax, fine_adv, late_deduction, unpaid_leave_deduction) ==
  RSub(RSub(RSub(RSub(RSub(gross_pay, eobi), tax), fine_adv), late_deduction),
       unpaid_leave_deduction)

RangeRecord(e, employee_id, working_days, base_salary, acc, sh, adv_ded, paid_status, day_rate, total_days, total_salary, fine_adv, gross_pay) ==
  [employee_db_id |-> e.id,
   employee_id |-> employee_id,
   serial_no |-> e.serial_no,
   fss_no |-> e.fss_no,
   base_salary |-> base_salary,
   allowances |-> Zero,
   working_days |-> working_days,
   day_rate |-> day_rate,
   payable_days |-> PayableDays(acc, working_days),
   pre_days |-> ClampedDays(sh.pre_days_override),
   cur_days |-> ClampedDays(sh.cur_days_override),
   leave_encashment_days |-> sh.leave_encashment_days,
   total_days |-> total_days,
   total_salary |-> total_salary,
   present_days |-> acc.present_days,
   late_days |-> acc.late_days,
   absent_days |-> acc.absent_days,
   paid_leave_days |-> acc.paid_leave_days,
   unpaid_leave_days |-> acc.unpaid_leave_days,
   unmarked_days |-> acc.unmarked_days,
   overtime_minutes |-> acc.overtime_minutes,
   overtime_pay |-> acc.overtime_pay,
   overtime_rate |-> acc.overtime_rate,
   late_minutes |-> acc.late_minutes,
   late_deduction |-> acc.late_deduction,
   late_rate |-> LateRate(acc),
   fine_deduction |-> acc.fine_deduction,
   allow_other |-> sh.allow_other,
   eobi |-> sh.eobi,
   tax |-> sh.tax,
   fine_adv_extra |-> sh.fine_adv_extra,
   fine_adv |-> fine_adv,
   remarks |-> sh.remarks,
   bank_cash |-> sh.bank_cash,
   unpaid_leave_deduction |-> Zero,
   advance_deduction |-> adv_ded,
   gross_pay |-> gross_pay,
   net_pay |-> RangeNet(gross_pay, sh.eobi, sh.tax, fine_adv, acc.late_deduction,
                        Zero),
   paid_status |-> paid_status]

RangeSalary(e, employee_id, working_days, base_salary, acc, sh, adv_ded, paid_status, day_rate, total_days, total_salary) ==
  RangeRecord(e, employee_id, working_days, base_salary, acc, sh, adv_ded,
              paid_status, day_rate, total_days, total_salary,
              FineAdv(acc.fine_deduction, adv_ded, sh.fine_adv_extra),
              RangeGross(total_salary, acc.overtime_rate, acc.overtime_pay, Zero,
                         sh.allow_other))

RangeDays(e, employee_id, working_days, base_salary, acc, sh, adv_ded, paid_status, day_rate, total_days) ==
  RangeSalary(e, employee_id, working_days, base_salary, acc, sh, adv_ded,
              paid_status, day_rate, total_days, TotalSalary(total_days, day_rate))

\* a calculation that counts the pre and cur days among the days paid
RangePayWithOverrides(e, employee_id, working_days, base_salary, acc, sh, adv_ded, paid_status) ==
  RangeDays(e, employee_id, working_days, base_salary, acc, sh, adv_ded,
            paid_status, DayRate(base_salary, working_days),
            TotalDays(acc.present_days + ClampedDays(sh.pre_days_override)
                        + ClampedDays(sh.cur_days_override),
                      acc.late_days, sh.leave_encashment_days))

RangePay(e, employee_id, working_days, base_salary, acc, sh, adv_ded, paid_status) ==
  RangeDays(e, employee_id, working_days, base_salary, acc, sh, adv_ded,
            paid_status, DayRate(base_salary, working_days),
            TotalDays(acc.present_days, acc.late_days, sh.leave_encashment_days))

RangeRowOf(e, employee_id, start, end, month_label, att) ==
  RangePay(e, employee_id, DaysInclusive(start, end), ToFloat(e.salary),
           RangeLoop(att, employee_id, DaysFrom(start, end)),
           SheetFields(SheetBy(start, end, e.id)),
           AdvanceBy(month_label, e.id), PaidStatusBy(month_label, employee_id))

\* one pass of "for e in employees" of payroll_range_report
RangeRow(e, start, end, month_label, att) ==
  RangeRowOf(e, RangeEmployeeId(e), start, end, month_label, att)

RangeRows(start, end, month_label, emps, att) ==
  [i \in 1..Len(emps) |-> RangeRow(emps[i], start, end, month_label, att)]

RangeResponse(month_label, rows) ==
  Response(month_label, rows, Totals(rows, Len(rows)))

\* month_label = month or _month_label(end)
LabelOf(month, end) == IF Truthy(month) THEN Val(month) ELSE MonthLabel(end)

\* a range report that does not compare the two dates
RangeReportUnchecked(s, t, month) ==
  IF IsNil(s) \/ IsNil(t) THEN Failed("InvalidPeriod")
  ELSE RangeResponse(LabelOf(month, Val(t)),
         RangeRows(Val(s), Val(t), LabelOf(month, Val(t)),
                   SortedBySortKey(SelectSeq(employees,
                                             LAMBDA e : Eligible(e, Val(t)))),
                   AttendanceIn(Val(s), Val(t))))

RangeReportOf(s, t, month) ==
  IF IsNil(s) \/ IsNil(t) THEN Failed("InvalidPeriod")
  ELSE IF DateLT(Val(t), Val(s)) THEN Failed("InvalidRange")
  ELSE RangeResponse(LabelOf(month, Val(t)),
         RangeRows(Val(s), Val(t), LabelOf(month, Val(t)),
                   SortedBySortKey(SelectSeq(employees,
                                             LAMBDA e : Eligible(e, Val(t)))),
                   AttendanceIn(Val(s), Val(t))))

\* payroll_range_report(from_date, to_date, month); month is Nil when the
\* query parameter is absent
PayrollRangeReport(from_date, to_date, month) ==
  RangeReportOf(ParseDate(from_date), ParseDate(to_date), month)

(* ---- payroll2_range_report ---- *)

\* pre_days / cur_days of payroll2_range_report: the override as stored
OverrideDays(override) == IF IsNil(override) THEN 0 ELSE Val(override)

\* a gross pay without the flat overtime rate
Range2GrossWithoutRate(total_salary, overtime_rate, overtime_pay, allow_other) ==
  RAdd(RAdd(total_salary, overtime_pay), allow_other)

\* gross_pay = total_salary + overtime_rate + overtime_pay + allow_other
Range2Gross(total_salary, overtime_rate, overtime_pay, allow_other) ==
  RAdd(RAdd(RAdd(total_salary, overtime_rate), overtime_pay), allow_other)

\* net_pay = gross_pay - eobi - tax - fine_adv - late_deduction
Range2Net(gross_pay, eobi, tax, fine_adv, late_deduction) ==
  RSub(RSub(RSub(RSub(gross_pay, eobi), tax), fine_adv), late_deduction)

Range2Record(e, employee_id, working_days, base_salary, acc, sh, adv_ded, day_rate, total_days, total_salary, fine_adv, gross_pay) ==
  [employee_db_id |-> e.id,
   employee_id |-> employee_id,
   serial_no |-> e.serial_no,
   fss_no |-> e.fss_no,
   base_salary |-> base_salary,
   working_days |-> working_days,
   day_rate |-> day_rate,
   presents_total |-> acc.present_days + acc.late_days,
   present_dates_prev |-> acc.present_dates_prev,
   present_dates_cur |-> acc.present_dates_cur,
   present_days |-> acc.present_days,
   late_days |-> acc.late_days,
   absent_days |-> acc.absent_days,
   paid_leave_days |-> acc.paid_leave_days,
   unpaid_leave_days |-> acc.unpaid_leave_days,
   pre_days |-> OverrideDays(sh.pre_days_override),
   cur_days |-> OverrideDays(sh.cur_days_override),
   leave_encashment_days |-> sh.leave_encashment_days,
   total_days |-> total_days,
   total_salary |-> total_salary,
   overtime_minutes |-> acc.overtime_minutes,
   overtime_rate |-> acc.overtime_rate,
   overtime_pay |-> acc.overtime_pay,
   late_minutes |-> acc.late_minutes,
   late_deduction |-> acc.late_deduction,
   allow_other |-> sh.allow_other,
   gross_pay |-> gross_pay,
   eobi |-> sh.eobi,
   tax |-> sh.tax,
   fine_deduction |-> acc.fine_deduction,
   fine_adv_extra |-> sh.fine_adv_extra,
   fine_adv |-> fine_adv,
   advance_deduction |-> adv_ded,
   net_pay |-> Range2Net(gross_pay, sh.eobi, sh.tax, fine_adv, acc.late_deduction),
   remarks |-> sh.remarks,
   bank_cash |-> sh.bank_cash]

Range2Salary(e, employee_id, working_days, base_salary, acc, sh, adv_ded, day_rate, total_days, total_salary) ==
  Range2Record(e, employee_id, working_days, base_salary, acc, sh, adv_ded,
               day_rate, total_days, total_salary,
               FineAdv(acc.fine_deduction, adv_ded, sh.fine_adv_extra),
               Range2Gross(total_salary, acc.overtime_rate, acc.overtime_pay,
                           sh.allow_other))

Range2Days(e, employee_id, working_days, base_salary, acc, sh, adv_ded, day_rate, total_days) ==
  Range2Salary(e, employee_id, working_days, base_salary, acc, sh, adv_ded,
               day_rate, total_days, TotalSalary(total_days, day_rate))

\* a calculation that pays pre_days + cur_days + leave_encashment days
Range2PayFromOverrides(e, employee_id, working_days, base_salary, acc, sh, adv_ded) ==
  Range2Days(e, employee_id, working_days, base_salary, acc, sh, adv_ded,
             DayRate(base_salary, working_days),
             Max0(OverrideDays(sh.pre_days_override) + OverrideDays(sh.cur_days_override)
                    + sh.leave_encashment_days))

Range2Pay(e, employee_id, working_days, base_salary, acc, sh, adv_ded) ==
  Range2Days(e, employee_id, working_days, base_salary, acc, sh, adv_ded,
             DayRate(base_salary, working_days),
             TotalDays(acc.present_days, acc.late_days, sh.leave_encashment_days))

Range2RowOf(e, employee_id, start, end, month_label, att) ==
  Range2Pay(e, employee_id, DaysInclusive(start, end), ToFloat(e.salary),
            Range2Loop(att, employee_id, DaysFrom(start, end), end[2]),
            SheetFields(SheetBy(start, end, e.id)),
            AdvanceBy(month_label, e.id))

\* one pass of "for e in employees" of payroll2_range_report
Range2Row(e, start, end, month_label, att) ==
  Range2RowOf(e, RangeEmployeeId(e), start, end, month_label, att)

Range2Rows(start, end, month_label, emps, att) ==
  [i \in 1..Len(emps) |-> Range2Row(emps[i], start, end, month_label, att)]

RECURSIVE TotalPresents(_, _)
TotalPresents(rows, i) ==
  IF i = 0 THEN 0 ELSE TotalPresents(rows, i - 1) + rows[i].presents_total

Range2Summary(month_label, start, end, rows, totals) ==
  [ok |-> TRUE, error |-> "none", month |-> month_label,
   summary |-> [month |-> month_label, from_date |-> start, to_date |-> end,
                working_days |-> DaysInclusive(start, end),
                employees |-> Len(rows),
                total_gross |-> totals.gross, total_net |-> totals.net,
                total_presents |-> TotalPresents(rows, Len(rows))],
   rows |-> rows]

Range2Response(month_label, start, end, rows) ==
  Range2Summary(month_label, start, end, rows, Totals(rows, Len(rows)))

Range2ReportOf(s, t, month) ==
  IF IsNil(s) \/ IsNil(t) THEN Failed("InvalidPeriod")
  ELSE IF DateLT(Val(t), Val(s)) THEN Failed("InvalidRange")
  ELSE Range2Response(LabelOf(month, Val(t)), Val(s), Val(t),
         Range2Rows(Val(s), Val(t), LabelOf(month, Val(t)),
                    SortedBySortKey(SelectSeq(employees,
                                              LAMBDA e : Eligible(e, Val(t)))),
                    AttendanceIn(Val(s), Val(t))))

\* payroll2_range_report(from_date, to_date, month)
Payroll2RangeReport(from_date, to_date, month) ==
  Range2ReportOf(ParseDate(from_date), ParseDate(to_date), month)

-----------------------------------------------------------------------------
(* Payment status *)

\* PayrollPaymentStatus(month=..., employee_id=..., status=...): the columns
\* the constructor is not given are NULL
NewPaymentStatus(month, employee_id, status) ==
  [month |-> month, employee_id |-> employee_id, status |-> status,
   employee_db_id |-> Nil, net_pay_snapshot |-> Nil]

\* query(PayrollPaymentStatus).filter(month == ..., employee_id == ...).first()
PaymentRow(month, employee_id) ==
  LET hit == {r \in payment : r.month = month /\ r.employee_id = employee_id}
  IN IF hit = {} THEN Nil ELSE Some(CHOOSE r \in hit : TRUE)

\* a variant of NormalStatus that neither trims nor lower-cases
RawStatus(status) == OrEmpty(status)

\* (payload.status or "").strip().lower()
NormalStatus(status) == Lower(Strip(OrEmpty(status)))

\* query(Employee2).filter(Employee2.fss_no == employee_id).first(): its id
EmployeeDbId(employee_id) ==
  LET hit == SelectSeq(employees, LAMBDA e : e.fss_no = Some(employee_id))
  IN IF hit = <<>> THEN Nil ELSE Some(hit[1].id)

\* a variant of NetSnapshot that takes the gross pay of the row
GrossSnapshot(rep, employee_id) ==
  LET hit == SelectSeq(rep.rows, LAMBDA r : r.employee_id = employee_id)
  IN IF hit = <<>> THEN Nil ELSE Some(hit[1].gross_pay)

\* next((r for r in rep.rows if r.employee_id == employee_id), None) and
\* float(match.net_pay or 0.0)
NetSnapshot(rep, employee_id) ==
  LET hit == SelectSeq(rep.rows, LAMBDA r : r.employee_id = employee_id)
  IN IF hit = <<>> THEN Nil ELSE Some(hit[1].net_pay)

\* the outcome of a payment-status request: the response body and the rows
\* the store holds after it
Rejected(error) ==
  [ok |-> FALSE, error |-> error, row |-> Nil, payment |-> payment]

\* a variant of Stored that replaces every row of the month
StoredByMonth(row) ==
  [ok |-> TRUE, error |-> "none", row |-> Some(row),
   payment |-> {r \in payment : r.month # row.month} \cup {row}]

Stored(row) ==
  [ok |-> TRUE, error |-> "none", row |-> Some(row),
   payment |-> {r \in payment :
                  r.month # row.month \/ r.employee_id # row.employee_id}
               \cup {row}]

\* a variant of GetStatus that returns the default row without storing it
GetStatusUnstored(month, employee_id, row) ==
  IF IsNil(row)
  THEN [ok |-> TRUE, error |-> "none",
        row |-> Some(NewPaymentStatus(month, employee_id, UNPAID)),
        payment |-> payment]
  ELSE [ok |-> TRUE, error |-> "none", row |-> row, payment |-> payment]

\* get_payment_status(month, employee_id)
GetStatus(month, employee_id, row) ==
  IF IsNil(row)
  THEN Stored(NewPaymentStatus(month, employee_id, UNPAID))
  ELSE [ok |-> TRUE, error |-> "none", row |-> row, payment |-> payment]

\* a variant of UpsertWrite that keeps the snapshot of a row set to unpaid
UpsertWriteKeeping(payload, status, net_snapshot) ==
  Stored([NewPaymentStatus(payload.month, payload.employee_id, status)
            EXCEPT !.employee_db_id = EmployeeDbId(payload.employee_id),
                   !.net_pay_snapshot =
                      IF status = PAID \/ IsNil(PaymentRow(payload.month,
                                                           payload.employee_id))
                      THEN net_snapshot
                      ELSE Val(PaymentRow(payload.month,
                                          payload.employee_id)).net_pay_snapshot])

\* lines 77-92 of upsert_payment_status: the row is created or updated, its
\* link and snapshot are set, and it is committed
UpsertWrite(payload, status, net_snapshot) ==
  Stored([NewPaymentStatus(payload.month, payload.employee_id, status)
            EXCEPT !.employee_db_id = EmployeeDbId(payload.employee_id),
                   !.net_pay_snapshot = IF status = PAID THEN net_snapshot ELSE Nil])

\* a variant of UpsertPaid that writes the row without a snapshot when the
\* nested report fails
UpsertPaidUnchecked(payload, rep) ==
  IF ~rep.ok THEN UpsertWrite(payload, PAID, Nil)
  ELSE UpsertWrite(payload, PAID, NetSnapshot(rep, payload.employee_id))

\* lines 72-76: the nested report; its HTTPException ends the request
UpsertPaid(payload, rep) ==
  IF ~rep.ok THEN Rejected(rep.error)
  ELSE UpsertWrite(payload, PAID, NetSnapshot(rep, payload.employee_id))

UpsertChecked(payload, status) ==
  IF status \notin {PAID, UNPAID} THEN Rejected("InvalidStatus")
  ELSE IF status = PAID THEN UpsertPaid(payload, PayrollReport(payload.month))
  ELSE UpsertWrite(payload, status, Nil)

\* upsert_payment_status(payload)
UpsertStatus(payload) == UpsertChecked(payload, NormalStatus(payload.status))

-----------------------------------------------------------------------------
(* The stored records and the requests of the model *)

Str1(a) == <<a>>
S_F1 == <<"F", "1">>
S_1 == <<"1">>
S_2 == <<"2">>
S_600 == <<"6", "0", "0">>
S_310 == <<" ", "3", "1", "0", " ">>
M_2024_02 == <<"2", "0", "2", "4", "-", "0", "2">>
M_2024_03 == <<"2", "0", "2", "4", "-", "0", "3">>
M_2024_13 == <<"2", "0", "2", "4", "-", "1", "3">>
M_2024_Feb == <<"2", "0", "2", "4", "-", "F", "e", "b">>
D_02_01 == <<"2", "0", "2", "4", "-", "0", "2", "-", "0", "1">>
D_02_27 == <<"2", "0", "2", "4", "-", "0", "2", "-", "2", "7">>
D_02_28 == <<"2", "0", "2", "4", "-", "0", "2", "-", "2", "8">>
D_02_29 == <<"2", "0", "2", "4", "-", "0", "2", "-", "2", "9">>
D_02_30 == <<"2", "0", "2", "4", "-", "0", "2", "-", "3", "0">>
D_03_02 == <<"2", "0", "2", "4", "-", "0", "3", "-", "0", "2">>

Employee(id, serial_no, fss_no, salary, created_at) ==
  [id |-> id, serial_no |-> serial_no, fss_no |-> fss_no, salary |-> salary,
   created_at |-> created_at]

\* two employees with distinct identifiers, the second hired on 2024-03-01
TableA ==
  << Employee(1, Some(S_1), Some(S_F1), Some(S_600), Nil),
     Employee(2, Some(S_2), Some(<<>>), Some(S_310),
              Some([date |-> <<2024, 3, 1>>, time |-> <<9, 0, 0, 0>>])) >>

\* two employees with the same external identifier "2": the badge number of
\* the first is the serial number of the second
TableB ==
  << Employee(1, Some(S_1), Some(S_2), Some(S_600), Nil),
     Employee(2, Some(S_2), Nil, Some(S_310), Nil) >>

Reverse(seq) == [i \in 1..Len(seq) |-> seq[Len(seq) + 1 - i]]

EmployeeTables == {TableA, Reverse(TableA), TableB, Reverse(TableB)}

Att(employee_id, date, status, leave_type, ot_min, ot_rate, late_min, late_ded, fine) ==
  [employee_id |-> Some(employee_id), date |-> date, status |-> status,
   leave_type |-> leave_type, overtime_minutes |-> ot_min,
   overtime_rate |-> FromInt(ot_rate), late_minutes |-> late_min,
   late_deduction |-> FromInt(late_ded), fine_amount |-> FromInt(fine)]

A_F1_27 == Att(S_F1, <<2024, 2, 27>>, Some(PRESENT), Nil, 90, 100, 0, 0, 0)
A_F1_28 ==
  Att(S_F1, <<2024, 2, 28>>, Some(<<" ", "L", "a", "t", "e", " ">>), Nil,
      0, 50, 10, 20, 5)
A_F1_29 ==
  Att(S_F1, <<2024, 2, 29>>, Some(LEAVE), Some(<<"U", "n", "p", "a", "i", "d">>),
      0, 0, 0, 0, 0)
A_F1_01 == Att(S_F1, <<2024, 3, 1>>, Some(LEAVE), Nil, 60, 30, 0, 0, 0)
A_2_28 == Att(S_2, <<2024, 2, 28>>, Some(ABSENT), Nil, 0, 0, 0, 0, 7)
A_2_29 ==
  Att(S_2, <<2024, 2, 29>>, Some(<<"h", "o", "l", "i", "d", "a", "y">>), Nil,
      60, 30, 0, 0, 0)

AttendanceUniverse == {A_F1_27, A_F1_28, A_F1_29, A_F1_01, A_2_28, A_2_29}

\* the store holds at most this many attendance records
MaxAttendance == 2

\* the attendance tables: at most one record per (employee_id, date), in any
\* order of return
RECURSIVE SeqsOver(_, _)
SeqsOver(S, n) ==
  IF n = 0 THEN {<<>>}
  ELSE LET shorter == SeqsOver(S, n - 1)
       IN shorter \cup {Append(q, x) : q \in {r \in shorter : Len(r) = n - 1},
                                        x \in S}

AttendanceTables ==
  {q \in SeqsOver(AttendanceUniverse, MaxAttendance) :
     \A i, j \in 1..Len(q) :
        i # j => (q[i].employee_id # q[j].employee_id \/ q[i].date # q[j].date)}

Sheet(id, from_date, to_date, pre, cur, le, allow_other, eobi, tax, extra, remarks) ==
  [employee_db_id |-> id, from_date |-> from_date, to_date |-> to_date,
   pre_days_override |-> pre, cur_days_override |-> cur,
   leave_encashment_days |-> le, allow_other |-> FromInt(allow_other),
   eobi |-> FromInt(eobi), tax |-> FromInt(tax),
   fine_adv_extra |-> FromInt(extra), remarks |-> remarks, bank_cash |-> Nil]

SheetCross == Sheet(1, <<2024, 2, 27>>, <<2024, 3, 2>>, Some(0 - 1), Some(3), 2,
                    50, 20, 30, 5, Some(<<"o", "k">>))
SheetFeb == Sheet(1, <<2024, 2, 1>>, <<2024, 2, 29>>, Nil, Nil, 0 - 5,
                  40, 10, 0, 15, Nil)
SheetCross2 == Sheet(2, <<2024, 2, 27>>, <<2024, 3, 2>>, Nil, Some(2), 1,
                     0, 0, 12, 0, Nil)

SheetTables == {{}, {SheetCross}, {SheetFeb}, {SheetCross, SheetCross2}}

Advance(id, month, amount) ==
  [employee_db_id |-> id, month |-> month, amount |-> FromInt(amount)]

AdvanceTables == {{}, {Advance(1, M_2024_02, 40), Advance(2, M_2024_03, 15)}}

MonthInputs == {M_2024_02, M_2024_13}
RangeInputs ==
  { <<D_02_27, D_03_02, Nil>>, <<D_02_01, D_02_29, Some(M_2024_02)>>,
    <<D_02_28, D_02_28, Nil>>, <<D_03_02, D_02_27, Nil>>,
    <<D_02_30, D_03_02, Nil>> }

-----------------------------------------------------------------------------
(* Requests *)

\* a month report that stores an 'unpaid' row for every identifier it
\* shows without one
ReportMaterialising(month) ==
  /\ resp' = [op |-> "report", month |-> month, body |-> PayrollReport(month)]
  /\ payment' =
       IF ~PayrollReport(month).ok THEN payment
       ELSE payment \cup
              {NewPaymentStatus(month, PayrollReport(month).rows[i].employee_id, UNPAID) :
                 i \in {k \in DOMAIN PayrollReport(month).rows :
                          IsNil(PaymentRow(month, PayrollReport(month).rows[k].employee_id))}}
  /\ UNCHANGED <<employees, attendance, sheets, advances, inflight>>

\* GET /report
ReportRequest(month) ==
  /\ resp' = [op |-> "report", month |-> month, body |-> PayrollReport(month)]
  /\ UNCHANGED <<employees, attendance, sheets, advances, payment, inflight>>

Report == \E month \in MonthInputs : ReportRequest(month)

\* GET /range-report of payroll.py
RangeRequest(q) ==
  /\ resp' = [op |-> "range", from_date |-> q[1], to_date |-> q[2],
              month |-> q[3], body |-> PayrollRangeReport(q[1], q[2], q[3])]
  /\ UNCHANGED <<employees, attendance, sheets, advances, payment, inflight>>

RangeReport == \E q \in RangeInputs : RangeRequest(q)

\* GET /range-report of payroll2.py
Range2Request(q) ==
  /\ resp' = [op |-> "range2", from_date |-> q[1], to_date |-> q[2],
              month |-> q[3], body |-> Payroll2RangeReport(q[1], q[2], q[3])]
  /\ UNCHANGED <<employees, attendance, sheets, advances, payment, inflight>>

Range2Report == \E q \in RangeInputs : Range2Request(q)

NoResponse == [op |-> "none"]

\* the stores a report can meet
InitReport ==
  /\ employees \in EmployeeTables
  /\ attendance \in AttendanceTables
  /\ sheets \in SheetTables
  /\ advances \in AdvanceTables
  /\ payment = {}
  /\ resp = NoResponse
  /\ inflight = <<>>

\* a report leaves the store as it is, so the states a sequence of reports
\* reaches are the states one report reaches
FirstReport == resp = NoResponse /\ Report
FirstRangeReport == resp = NoResponse /\ RangeReport
FirstRange2Report == resp = NoResponse /\ Range2Report

NextReport == FirstReport \/ FirstRangeReport \/ FirstRange2Report

SpecReport == InitReport /\ [][NextReport]_vars


-----------------------------------------------------------------------------
(* Properties of the reports, stated on the response of a report request *)

Accepted == resp.op \in {"report", "range", "range2"} /\ resp.body.ok
Rows == IF Accepted THEN resp.body.rows ELSE <<>>

\* the period the request names
Period ==
  IF resp.op = "report"
  THEN [start |-> ParseMonth(resp.month).start, end |-> ParseMonth(resp.month).end]
  ELSE [start |-> Val(ParseDate(resp.from_date)), end |-> Val(ParseDate(resp.to_date))]
WorkingDays == DaysInclusive(Period.start, Period.end)
Label ==
  IF resp.op = "report" THEN resp.month
  ELSE IF Truthy(resp.month) THEN Val(resp.month) ELSE MonthLabel(Period.end)

InPeriod(a) == DateLE(Period.start, a.date) /\ DateLE(a.date, Period.end)
Recognised(a) ==
  Strip(Lower(OrEmpty(a.status))) \in {PRESENT, LATE, ABSENT, LEAVE}

\* the stored records of the period the report assigns to the row
RecordsOf(r) ==
  {i \in DOMAIN attendance :
     /\ InPeriod(attendance[i])
     /\ IF resp.op = "report"
        THEN attendance[i].employee_id = Some(r.employee_id)
        ELSE Strip(OrEmpty(attendance[i].employee_id)) = r.employee_id}

CategorySum(r) ==
  r.present_days + r.late_days + r.absent_days + r.paid_leave_days
    + r.unpaid_leave_days

\* the override and the advance deduction stored for the row's employee
OverrideOf(r) ==
  {x \in sheets : x.employee_db_id = r.employee_db_id
                    /\ x.from_date = Period.start /\ x.to_date = Period.end}
AdvanceOf(r) ==
  {x \in advances : x.employee_db_id = r.employee_db_id /\ x.month = Label}

Prorated(r, total_days) ==
  RMul(FromInt(total_days), RDiv(r.base_salary, FromInt(WorkingDays)))

EncashmentOf(r) ==
  IF OverrideOf(r) = {} THEN 0
  ELSE (CHOOSE x \in OverrideOf(r) : TRUE).leave_encashment_days

AllowOtherOf(r) ==
  IF OverrideOf(r) = {} THEN Zero ELSE (CHOOSE x \in OverrideOf(r) : TRUE).allow_other

\* C2 as the specification states it: in every row of every variant the
\* salary component of gross pay is max(0, present + late + encashment) days
\* at base_salary / working_days.
C2_Stated ==
  Accepted =>
    \A i \in DOMAIN Rows :
      LET r == Rows[i]
      IN RSub(RSub(RSub(r.gross_pay, r.overtime_rate), r.overtime_pay), AllowOtherOf(r))
           = Prorated(r, Max0(r.present_days + r.late_days + EncashmentOf(r)))

\* C2, amended: in every row of both range reports total_days =
\* max(0, present_days + late_days + leave_encashment_days) with the
\* encashment of the override of the period, and total_salary = total_days x
\* (base_salary / working_days); the rows of the calendar-month report have no
\* total_days and no total_salary, and the salary in their gross pay is the
\* whole base_salary whatever the attendance is.
C2_Proration ==
  Accepted =>
    \A i \in DOMAIN Rows :
      LET r == Rows[i]
      IN IF resp.op = "report"
         THEN /\ "total_days" \notin DOMAIN r /\ "total_salary" \notin DOMAIN r
              /\ RSub(RSub(RSub(r.gross_pay, r.overtime_rate), r.overtime_pay),
                      r.base_salary) \in {Zero, AllowOtherOf(r)}
         ELSE /\ r.leave_encashment_days = EncashmentOf(r)
              /\ r.total_days
                   = Max0(r.present_days + r.late_days + r.leave_encashment_days)
              /\ r.total_days >= 0
              /\ r.total_salary = Prorated(r, r.total_days)

\* a range row whose encashment is negative beyond the attended days, with a
\* positive base salary
C2_Witness ==
  /\ Accepted /\ resp.op \in {"range", "range2"}
  /\ \E i \in DOMAIN Rows :
       /\ Rows[i].present_days + Rows[i].late_days > 0
       /\ Rows[i].present_days + Rows[i].late_days + Rows[i].leave_encashment_days < 0
       /\ RPos(Rows[i].base_salary)

\* the override values of the row's employee and period, 0 without an override
EobiOf(r) ==
  IF OverrideOf(r) = {} THEN Zero ELSE (CHOOSE x \in OverrideOf(r) : TRUE).eobi
TaxOf(r) ==
  IF OverrideOf(r) = {} THEN Zero ELSE (CHOOSE x \in OverrideOf(r) : TRUE).tax
FineAdvExtraOf(r) ==
  IF OverrideOf(r) = {} THEN Zero
  ELSE (CHOOSE x \in OverrideOf(r) : TRUE).fine_adv_extra
AdvanceDeductionOf(r) ==
  IF AdvanceOf(r) = {} THEN Zero ELSE (CHOOSE x \in AdvanceOf(r) : TRUE).amount

\* the salary of the row: total_salary, or base_salary where the row has no
\* total_salary (C2)
SalaryOf(r) == IF "total_salary" \in DOMAIN r THEN r.total_salary ELSE r.base_salary

\* C3 as the specification states it: in every row of the calendar-month
\* report and of the range report of payroll.py, gross_pay is the salary of
\* the row + overtime_rate + overtime_pay + allowances + allow_other, with
\* allowances 0 and allow_other the allowance of the override stored for the
\* employee and the period (0 without one).
C3_Stated ==
  (Accepted /\ resp.op \in {"report", "range"}) =>
    \A i \in DOMAIN Rows :
      LET r == Rows[i]
      IN /\ r.allowances = Zero
         /\ r.gross_pay
              = RAdd(RAdd(RAdd(RAdd(SalaryOf(r), r.overtime_rate), r.overtime_pay),
                          r.allowances), AllowOtherOf(r))

\* the sum of the fines of a set of stored records
RECURSIVE FineSum(_)
FineSum(js) ==
  IF js = {} THEN Zero
  ELSE LET j == CHOOSE k \in js : TRUE
       IN RAdd(attendance[j].fine_amount, FineSum(js \ {j}))

\* C4: in every row of both range reports fine_adv = fine_deduction +
\* advance_deduction + fine_adv_extra and net_pay = gross_pay - eobi - tax -
\* fine_adv - late_deduction, where fine_deduction is the sum of the fines of
\* the employee's records in [from, to], advance_deduction the advance stored
\* for the month label, and eobi, tax, fine_adv_extra those of the override
\* for exactly (employee internal id, from, to), each 0 where nothing is
\* stored; unpaid leave costs nothing.
C4_RangeNet ==
  (Accepted /\ resp.op \in {"range", "range2"}) =>
    \A i \in DOMAIN Rows :
      LET r == Rows[i]
      IN /\ r.fine_deduction = FineSum(RecordsOf(r))
         /\ r.advance_deduction = AdvanceDeductionOf(r)
         /\ r.eobi = EobiOf(r) /\ r.tax = TaxOf(r)
         /\ r.fine_adv_extra = FineAdvExtraOf(r)
         /\ r.fine_adv
              = RAdd(RAdd(r.fine_deduction, r.advance_deduction), r.fine_adv_extra)
         /\ r.net_pay
              = RSub(RSub(RSub(RSub(r.gross_pay, r.eobi), r.tax), r.fine_adv),
                     r.late_deduction)
         /\ resp.op = "range" => r.unpaid_leave_deduction = Zero

\* a range row with a fine, an advance, an override with eobi, tax and extra,
\* a late deduction and a day of unpaid leave
C4_Witness ==
  /\ Accepted /\ resp.op \in {"range", "range2"}
  /\ \E i \in DOMAIN Rows :
       /\ RPos(Rows[i].fine_deduction) /\ RPos(Rows[i].advance_deduction)
       /\ RPos(Rows[i].fine_adv_extra) /\ RPos(Rows[i].eobi)
       /\ RPos(Rows[i].late_deduction) /\ Rows[i].unpaid_leave_days > 0

\* C5 as the specification states it: in every row of the calendar-month
\* report unpaid_leave_deduction = unpaid_leave_days x 1000 and net_pay =
\* gross_pay - eobi - tax - fine_adv - late_deduction -
\* unpaid_leave_deduction, with fine_adv = advance_deduction + fine_adv_extra
\* and eobi, tax, fine_adv_extra those of the override stored for the
\* employee and the first..last day of the month (0 without one).
C5_Stated ==
  (Accepted /\ resp.op = "report") =>
    \A i \in DOMAIN Rows :
      LET r == Rows[i]
      IN /\ r.unpaid_leave_deduction = RMul(FromInt(r.unpaid_leave_days), FromInt(1000))
         /\ r.advance_deduction = AdvanceDeductionOf(r)
         /\ r.net_pay
              = RSub(RSub(RSub(RSub(RSub(r.gross_pay, EobiOf(r)), TaxOf(r)),
                               RAdd(r.advance_deduction, FineAdvExtraOf(r))),
                          r.late_deduction),
                     r.unpaid_leave_deduction)

\* the employees the period includes
EligibleIds == {employees[i].id : i \in {j \in DOMAIN employees :
                                           Eligible(employees[j], Period.end)}}

\* the sum of a field over a set of rows, taken from the last row to the first
RECURSIVE FieldSum(_, _)
FieldSum(is, field) ==
  IF is = {} THEN Zero
  ELSE LET i == CHOOSE k \in is : \A m \in is : k >= m
       IN RAdd(Rows[i][field], FieldSum(is \ {i}, field))

\* C6: a successful report of any variant has exactly one row per eligible
\* employee, summary.employees is the number of rows, and summary.total_gross
\* and summary.total_net are the sums of gross_pay and net_pay over the rows,
\* in whatever order the rows are added.
C6_Summary ==
  Accepted =>
    /\ {Rows[i].employee_db_id : i \in DOMAIN Rows} = EligibleIds
    /\ Len(Rows) = Cardinality(EligibleIds)
    /\ resp.body.summary.employees = Len(Rows)
    /\ resp.body.summary.total_gross = FieldSum(DOMAIN Rows, "gross_pay")
    /\ resp.body.summary.total_net = FieldSum(DOMAIN Rows, "net_pay")

\* a report with two rows of different, non-zero pay, net below gross
C6_Witness ==
  /\ Accepted /\ Len(Rows) = 2
  /\ Rows[1].net_pay # Rows[2].net_pay
  /\ ~RIsZero(Rows[1].net_pay) /\ ~RIsZero(Rows[2].gross_pay)
  /\ resp.body.summary.total_net # resp.body.summary.total_gross

-----------------------------------------------------------------------------
(* Payment-status requests *)

StatusMonths == {M_2024_02, M_2024_13}
StatusIds == {S_F1, S_2}
StatusInputs ==
  { Nil, Some(<<>>), Some(PAID), Some(<<" ", "P", "a", "i", "d", "\n">>),
    Some(<<"U", "N", "P", "A", "I", "D">>), Some(<<"u", "n", "p", "a", "i", "d", " ">>),
    Some(<<"p", "a", "y", "e", "d">>) }

\* the response body of a payment-status request; beside it the response
\* keeps "found", the row the handler's lookup returned
Body(out) == [ok |-> out.ok, error |-> out.error, row |-> out.row]

\* GET /payment-status
GetRequest(month, employee_id) ==
  LET out == GetStatus(month, employee_id, PaymentRow(month, employee_id))
  IN /\ resp' = [op |-> "get", month |-> month, employee_id |-> employee_id,
                 found |-> PaymentRow(month, employee_id), body |-> Body(out)]
     /\ payment' = out.payment
     /\ UNCHANGED <<employees, attendance, sheets, advances, inflight>>

GetPaymentStatus ==
  \E month \in StatusMonths, employee_id \in StatusIds : GetRequest(month, employee_id)

\* PUT /payment-status
SetRequest(month, employee_id, status) ==
  LET out == UpsertStatus([month |-> month, employee_id |-> employee_id,
                           status |-> status])
  IN /\ resp' = [op |-> "set", month |-> month, employee_id |-> employee_id,
                 status |-> status, found |-> PaymentRow(month, employee_id),
                 body |-> Body(out)]
     /\ payment' = out.payment
     /\ UNCHANGED <<employees, attendance, sheets, advances, inflight>>

UpsertPaymentStatus ==
  \E month \in StatusMonths, employee_id \in StatusIds, status \in StatusInputs :
    SetRequest(month, employee_id, status)

\* the stores of the payment-status behaviours: no status row yet
Init ==
  /\ employees \in {TableA, TableB}
  /\ attendance \in {<<A_F1_27, A_F1_28>>, <<A_2_29, A_F1_29>>}
  /\ sheets = {SheetFeb}
  /\ advances = {Advance(1, M_2024_02, 40)}
  /\ payment = {}
  /\ resp = NoResponse
  /\ inflight = <<>>

Next == GetPaymentStatus \/ UpsertPaymentStatus

Spec == Init /\ [][Next]_vars

-----------------------------------------------------------------------------
(* Properties of the payment status *)

\* the rows the store holds for a key
RowsOf(month, employee_id) ==
  {r \in payment : r.month = month /\ r.employee_id = employee_id}

\* the net pay a report requested for the month yields for the identifier:
\* that of the first row carrying it
ReportNet(month, employee_id) ==
  LET rows == PayrollReport(month).rows
      first == CHOOSE i \in DOMAIN rows :
                 /\ rows[i].employee_id = employee_id
                 /\ \A j \in 1..(i - 1) : rows[j].employee_id # employee_id
  IN rows[first].net_pay

InReport(month, employee_id) ==
  /\ PayrollReport(month).ok
  /\ \E i \in DOMAIN PayrollReport(month).rows :
       PayrollReport(month).rows[i].employee_id = employee_id

SetPaidDone ==
  /\ resp.op = "set" /\ resp.body.ok
  /\ Val(resp.body.row).status = PAID
  /\ InReport(resp.month, resp.employee_id)

\* C7: when set(month, employeeId, 'paid') has succeeded for an employee with
\* a row in the month's report, the get of the same key that follows it
\* returns status 'paid' and a snapshot equal to the net pay a report
\* requested for that month yields for the employee on the same store.
C7_PaidReadBack ==
  [][(resp.op = "set" /\ resp'.op = "get" /\ resp'.month = resp.month
        /\ resp'.employee_id = resp.employee_id /\ SetPaidDone)
       => /\ Val(resp'.body.row).status = PAID
          /\ Val(resp'.body.row).net_pay_snapshot
               = Some(ReportNet(resp.month, resp.employee_id))]_vars

\* a get that found a paid row whose snapshot is the report's net pay, which
\* differs from the gross pay
C7_Witness ==
  /\ resp.op = "get" /\ ~IsNil(resp.found)
  /\ Val(resp.body.row).status = PAID
  /\ InReport(resp.month, resp.employee_id)
  /\ Val(resp.body.row).net_pay_snapshot = Some(ReportNet(resp.month, resp.employee_id))
  /\ \E i \in DOMAIN PayrollReport(resp.month).rows :
       /\ PayrollReport(resp.month).rows[i].employee_id = resp.employee_id
       /\ PayrollReport(resp.month).rows[i].gross_pay
            # ReportNet(resp.month, resp.employee_id)

\* C8: every stored PaymentStatus row with status 'unpaid' has a null
\* net_pay_snapshot, whatever gets and sets came before.
C8_UnpaidNoSnapshot ==
  \A r \in payment : r.status = UNPAID => IsNil(r.net_pay_snapshot)

\* a set to unpaid that found the row paid with a snapshot
C8_Witness ==
  /\ resp.op = "set" /\ resp.body.ok
  /\ ~IsNil(resp.found)
  /\ Val(resp.found).status = PAID /\ ~IsNil(Val(resp.found).net_pay_snapshot)
  /\ Val(resp.body.row).status = UNPAID
  /\ Val(resp.body.row) \in payment

\* the inputs that are 'paid', and those that are 'unpaid', once trimmed and
\* lower-cased
PaidInputs == {Some(<<"p", "a", "i", "d">>), Some(<<" ", "P", "a", "i", "d", "\n">>)}
UnpaidInputs ==
  { Some(<<"U", "N", "P", "A", "I", "D">>),
    Some(<<"u", "n", "p", "a", "i", "d", " ">>) }
AcceptedInputs == PaidInputs \cup UnpaidInputs

\* C9: a set is rejected with InvalidStatus exactly when its status, trimmed
\* and lower-cased, is neither 'paid' nor 'unpaid' (an empty or missing one
\* included), and a rejected set leaves every PaymentStatus row as it was and
\* creates none.
C9_StatusValidation ==
  [][resp'.op = "set"
       => /\ resp'.status \in StatusInputs
          /\ (resp'.status \in AcceptedInputs) <=> (resp'.body.error # "InvalidStatus")
          /\ resp'.body.ok
               => Val(resp'.body.row).status
                    = (IF resp'.status \in PaidInputs THEN PAID ELSE UNPAID)
          /\ ~resp'.body.ok => payment' = payment]_vars

\* a set with an unaccepted status that found a paid row and left it stored
C9_Witness ==
  /\ resp.op = "set" /\ ~resp.body.ok /\ resp.body.error = "InvalidStatus"
  /\ resp.status \notin AcceptedInputs
  /\ ~IsNil(resp.found) /\ Val(resp.found).status = PAID
  /\ Val(resp.found) \in payment

\* C10: a get for a key without a row stores and returns a row with status
\* 'unpaid' and null snapshot; a get for a key with a row returns that row
\* and changes nothing; after either the key has one row, and a get that
\* follows a get of the same key returns the same row.
C10_GetOrCreate ==
  [][resp'.op = "get"
       => LET before == RowsOf(resp'.month, resp'.employee_id)
              row == Val(resp'.body.row)
          IN /\ resp'.body.ok
             /\ IF before = {}
                THEN /\ row.status = UNPAID /\ IsNil(row.net_pay_snapshot)
                     /\ row.month = resp'.month
                     /\ row.employee_id = resp'.employee_id
                     /\ payment' = payment \cup {row}
                ELSE /\ before = {row}
                     /\ payment' = payment
             /\ (resp.op = "get" /\ resp.month = resp'.month
                   /\ resp.employee_id = resp'.employee_id)
                  => resp'.body.row = resp.body.row /\ payment' = payment]_vars

\* a get that found the row an earlier request had stored, among other rows
C10_Witness ==
  /\ resp.op = "get" /\ ~IsNil(resp.found)
  /\ resp.body.row = resp.found
  /\ Val(resp.found) \in payment
  /\ Cardinality(payment) >= 2

-----------------------------------------------------------------------------
(* Concurrent payment-status requests for one key *)

(* Each request runs in its own session: its lookup (.first()) and its    *)
(* write (db.add / attribute assignment, db.commit) are separate store    *)
(* operations, and nothing in the handlers orders the operations of two   *)
(* requests. A stored row carries the primary key the insert gave it, so  *)
(* that two rows of equal content are two rows.                           *)

\* the store allows this many concurrent requests
MaxRequests == 2

RaceMonth == M_2024_02
RaceId == S_F1

RaceRequests ==
  { [kind |-> "get", status |-> Nil],
    [kind |-> "set", status |-> Some(PAID)],
    [kind |-> "set", status |-> Some(<<"U", "N", "P", "A", "I", "D">>)] }

\* db.add(row); db.commit(): the row with the next primary key
Inserted(row) ==
  [f \in DOMAIN row \cup {"id"} |->
     IF f = "id" THEN Cardinality(payment) + 1 ELSE row[f]]

\* the query of the handler, lines 34-41 and 59-66
RaceLookup(p) ==
  /\ inflight[p].pc = "lookup"
  /\ \E found \in {Nil} \cup {Some(r) : r \in payment} :
       /\ IF IsNil(found)
          THEN \A r \in payment : r.month # RaceMonth \/ r.employee_id # RaceId
          ELSE Val(found).month = RaceMonth /\ Val(found).employee_id = RaceId
       /\ inflight' = [inflight EXCEPT ![p].pc = "write", ![p].row = found]
  /\ UNCHANGED <<employees, attendance, sheets, advances, payment, resp>>

\* lines 42-47 of get_payment_status
RaceGetWrite(p) ==
  /\ inflight[p].pc = "write" /\ inflight[p].kind = "get"
  /\ payment' = IF IsNil(inflight[p].row)
                THEN payment \cup {Inserted(NewPaymentStatus(RaceMonth, RaceId, UNPAID))}
                ELSE payment
  /\ resp' = [op |-> "get", month |-> RaceMonth, employee_id |-> RaceId,
              found |-> inflight[p].row, by |-> p]
  /\ inflight' = [inflight EXCEPT ![p].pc = "done"]
  /\ UNCHANGED <<employees, attendance, sheets, advances>>

\* the row upsert_payment_status writes: lines 77-88 on the row of the lookup
RaceWritten(p, status, net_snapshot) ==
  [(IF IsNil(inflight[p].row)
    THEN Inserted(NewPaymentStatus(RaceMonth, RaceId, status))
    ELSE Val(inflight[p].row))
   EXCEPT !.status = status,
          !.employee_db_id = EmployeeDbId(RaceId),
          !.net_pay_snapshot = IF status = PAID THEN net_snapshot ELSE Nil]

\* lines 68-92 of upsert_payment_status
RaceSetWrite(p) ==
  /\ inflight[p].pc = "write" /\ inflight[p].kind = "set"
  /\ LET status == NormalStatus(inflight[p].status)
         row == RaceWritten(p, status, NetSnapshot(PayrollReport(RaceMonth), RaceId))
     IN /\ payment' = {r \in payment : r.id # row.id} \cup {row}
        /\ resp' = [op |-> "set", month |-> RaceMonth, employee_id |-> RaceId,
                    status |-> inflight[p].status, found |-> inflight[p].row,
                    by |-> p]
  /\ inflight' = [inflight EXCEPT ![p].pc = "done"]
  /\ UNCHANGED <<employees, attendance, sheets, advances>>

InitRace ==
  /\ employees = TableA
  /\ attendance = <<A_F1_27, A_F1_28>>
  /\ sheets = {}
  /\ advances = {}
  /\ payment = {}
  /\ resp = NoResponse
  /\ inflight \in [1..MaxRequests ->
                    {[kind |-> q.kind, status |-> q.status, pc |-> "lookup",
                      row |-> Nil] : q \in RaceRequests}]

Lookup == \E p \in DOMAIN inflight : RaceLookup(p)
GetWrite == \E p \in DOMAIN inflight : RaceGetWrite(p)
SetWrite == \E p \in DOMAIN inflight : RaceSetWrite(p)

NextRace == Lookup \/ GetWrite \/ SetWrite

SpecRace == InitRace /\ [][NextRace]_vars

\* the statuses the set requests of the run ask for
RaceStatuses ==
  {NormalStatus(inflight[p].status) : p \in {q \in DOMAIN inflight :
                                               inflight[q].kind = "set"}}

\* C11 as the specification states it: under any interleaving of concurrent
\* get and set requests for one key the store holds at most one
\* PaymentStatus row for the key, and once all requests are done the status
\* of a row of the key is that of some set request of the run ('unpaid' if
\* the run has none).
C11_Stated ==
  /\ Cardinality({r \in payment : r.month = RaceMonth /\ r.employee_id = RaceId}) <= 1
  /\ (\A p \in DOMAIN inflight : inflight[p].pc = "done")
       => \A r \in payment :
            r.status \in (IF RaceStatuses = {} THEN {UNPAID} ELSE RaceStatuses)

-----------------------------------------------------------------------------
(* Reports over a roster: employees hired around the end of the period and *)
(* serial numbers of every kind                                            *)

S_9 == <<"9">>
S_10 == <<"1", "0">>
S_NA == <<"N", "/", "A">>
S_1000000 == <<"1", "0", "0", "0", "0", "0", "0">>

At(date, time) == Some([date |-> date, time |-> time])

\* hired: unknown; in the last microsecond of February; at the first instant
\* of March; in the morning of 2024-02-28; in the last microsecond of
\* 2024-03-02
E_9 == Employee(1, Some(S_9), Some(S_F1), Some(S_600), Nil)
E_10 == Employee(2, Some(S_10), Nil, Some(S_310), At(<<2024, 2, 29>>, TimeMax))
E_NA == Employee(3, Some(S_NA), Nil, Some(S_600), At(<<2024, 3, 1>>, <<0, 0, 0, 0>>))
E_1000000 == Employee(4, Some(S_1000000), Nil, Some(S_310), At(<<2024, 2, 28>>, <<9, 0, 0, 0>>))
E_None == Employee(5, Nil, Some(S_2), Some(S_600), At(<<2024, 3, 2>>, TimeMax))

RosterUniverse == {E_9, E_10, E_NA, E_1000000, E_None}

\* the employee table holds at most this many employees
MaxRoster == 3

\* the employee tables: two employees or more, each once, in any order of
\* return
RosterTables ==
  {q \in SeqsOver(RosterUniverse, MaxRoster) :
     /\ Len(q) >= 2
     /\ \A i, j \in 1..Len(q) : i # j => q[i] # q[j]}

InitRoster ==
  /\ employees \in RosterTables
  /\ attendance = <<A_F1_27, A_F1_28>>
  /\ sheets = {}
  /\ advances = {}
  /\ payment = {}
  /\ resp = NoResponse
  /\ inflight = <<>>

SpecRoster == InitRoster /\ [][NextReport]_vars

\* hired by the day d: no hire timestamp, or one whose day is not after d
HiredBy(e, d) == IsNil(e.created_at) \/ DateLE(Val(e.created_at).date, d)

HasRow(e) == \E k \in DOMAIN Rows : Rows[k].employee_db_id = e.id

\* C12: in a successful report of any variant an employee has a row if and
\* only if the hire timestamp is null or not after the last instant of the
\* last day of the period, that is, the employee was hired on that day or
\* before it.
C12_Eligibility ==
  Accepted =>
    \A i \in DOMAIN employees : HasRow(employees[i]) <=> HiredBy(employees[i], Period.end)

\* a month report for February 2024 that includes the employee hired in the
\* last microsecond of 29 February and leaves out the one hired at 00:00 of
\* 1 March
C12_Witness ==
  /\ Accepted /\ resp.op = "report"
  /\ \E i, j \in DOMAIN employees :
       /\ employees[i] = E_10 /\ HasRow(E_10)
       /\ employees[j] = E_NA /\ ~HasRow(E_NA)

\* the serial number of a row as an integer; Nil when it does not parse
SerialInt(r) == IF Truthy(r.serial_no) THEN ParseInt(Val(r.serial_no)) ELSE Nil
Numbered(r) == ~IsNil(SerialInt(r))
Unparsed(r) == Truthy(r.serial_no) /\ IsNil(SerialInt(r))

\* C13 as the specification states it: in every successful report the rows
\* with an integer serial number are in ascending order of that integer, and
\* no row whose serial number does not parse comes before a row whose serial
\* number does.  (Rows without a serial number are left out of the
\* statement.)
C13_Stated ==
  Accepted =>
    \A i, j \in DOMAIN Rows :
      i < j =>
        /\ Numbered(Rows[i]) /\ Numbered(Rows[j])
             => Val(SerialInt(Rows[i])) <= Val(SerialInt(Rows[j]))
        /\ ~(Unparsed(Rows[i]) /\ Numbered(Rows[j]))

-----------------------------------------------------------------------------
(* bulk_upsert_payroll_sheet_entries (PUT /sheet-entries)                  *)

(* A payload is [from_date, to_date, entries]; an entry is                 *)
(*   [employee_db_id, from_date, to_date, pre_days_override,               *)
(*    cur_days_override, leave_encashment_days, allow_other, eobi, tax,    *)
(*    fine_adv_extra, remarks, bank_cash]                                  *)
(* with dates already parsed by the schema and every other field Nil when  *)
(* the request leaves it unset.                                            *)

\* the row of a key among the rows the session sees: the committed rows and
\* the rows written earlier in the same request
SessionRow(rows, id, start, end) ==
  LET hit == {r \in rows : r.employee_db_id = id /\ r.from_date = start /\ r.to_date = end}
  IN IF hit = {} THEN Nil ELSE Some(CHOOSE r \in hit : TRUE)

\* PayrollSheetEntry(employee_db_id=..., from_date=start, to_date=end)
NewSheetEntry(id, start, end) ==
  [employee_db_id |-> id, from_date |-> start, to_date |-> end,
   pre_days_override |-> Nil, cur_days_override |-> Nil,
   leave_encashment_days |-> Nil, allow_other |-> Nil, eobi |-> Nil, tax |-> Nil,
   fine_adv_extra |-> Nil, remarks |-> Nil, bank_cash |-> Nil]

\* int(x or 0) and float(x or 0.0)
IntOrZero(o) == IF IsNil(o) THEN 0 ELSE Val(o)
FloatOrZero(o) == IF IsNil(o) THEN Zero ELSE Val(o)

\* a write that keeps the stored value of a field the entry leaves unset
EntryPatched(row, e) ==
  [row EXCEPT
     !.pre_days_override = IF IsNil(e.pre_days_override) THEN @ ELSE e.pre_days_override,
     !.cur_days_override = IF IsNil(e.cur_days_override) THEN @ ELSE e.cur_days_override,
     !.leave_encashment_days = IF IsNil(e.leave_encashment_days) THEN @ ELSE Val(e.leave_encashment_days),
     !.allow_other = IF IsNil(e.allow_other) THEN @ ELSE Val(e.allow_other),
     !.eobi = IF IsNil(e.eobi) THEN @ ELSE Val(e.eobi),
     !.tax = IF IsNil(e.tax) THEN @ ELSE Val(e.tax),
     !.fine_adv_extra = IF IsNil(e.fine_adv_extra) THEN @ ELSE Val(e.fine_adv_extra),
     !.remarks = IF IsNil(e.remarks) THEN @ ELSE e.remarks,
     !.bank_cash = IF IsNil(e.bank_cash) THEN @ ELSE e.bank_cash]

\* the nine assignments row.<field> = ... of the loop body
EntryWritten(row, e) ==
  [row EXCEPT
     !.pre_days_override = e.pre_days_override,
     !.cur_days_override = e.cur_days_override,
     !.leave_encashment_days = IntOrZero(e.leave_encashment_days),
     !.allow_other = FloatOrZero(e.allow_other),
     !.eobi = FloatOrZero(e.eobi),
     !.tax = FloatOrZero(e.tax),
     !.fine_adv_extra = FloatOrZero(e.fine_adv_extra),
     !.remarks = e.remarks,
     !.bank_cash = e.bank_cash]

\* one pass of "for e in payload.entries" on the rows of the session
EntryUpsert(rows, found, e, start, end) ==
  IF IsNil(found)
  THEN rows \cup {EntryWritten(NewSheetEntry(e.employee_db_id, start, end), e)}
  ELSE (rows \ {Val(found)}) \cup {EntryWritten(Val(found), e)}

\* the loop from entry i on: the rows of the session at its end, or the
\* rejection of an entry whose period is not the period of the payload
RECURSIVE EntryLoop(_, _, _, _, _)
EntryLoop(rows, entries, i, start, end) ==
  IF i > Len(entries) THEN [ok |-> TRUE, error |-> "none", rows |-> rows]
  ELSE IF entries[i].from_date # start \/ entries[i].to_date # end
       THEN [ok |-> FALSE, error |-> "PeriodMismatch", rows |-> rows]
       ELSE EntryLoop(EntryUpsert(rows, SessionRow(rows, entries[i].employee_db_id, start, end),
                                  entries[i], start, end),
                      entries, i + 1, start, end)

\* a handler that keeps what the loop wrote before it raised
BulkUpsertFlushed(payload, done) ==
  [body |-> IF done.ok THEN [ok |-> TRUE, error |-> "none", rows |-> <<>>]
            ELSE Failed(done.error),
   store |-> done.rows]

\* the handler: what it answers and the rows committed after it; a request
\* that raises commits nothing
BulkUpsert(payload, done) ==
  IF ~done.ok THEN [body |-> Failed(done.error), store |-> sheets]
  ELSE [body |-> [ok |-> TRUE, error |-> "none",
                  rows |-> [i \in DOMAIN payload.entries |->
                              Val(SessionRow(done.rows, payload.entries[i].employee_db_id,
                                             payload.from_date, payload.to_date))]],
        store |-> done.rows]

BulkUpsertSheetEntries(payload) ==
  IF DateLT(payload.to_date, payload.from_date)
  THEN [body |-> Failed("InvalidRange"), store |-> sheets]
  ELSE BulkUpsert(payload, EntryLoop(sheets, payload.entries, 1,
                                     payload.from_date, payload.to_date))

Entry(id, from_date, to_date, pre, cur, le, allow_other, eobi, tax, extra, remarks) ==
  [employee_db_id |-> id, from_date |-> from_date, to_date |-> to_date,
   pre_days_override |-> pre, cur_days_override |-> cur,
   leave_encashment_days |-> le, allow_other |-> allow_other, eobi |-> eobi,
   tax |-> tax, fine_adv_extra |-> extra, remarks |-> remarks, bank_cash |-> Nil]

\* the entries that write SheetCross, a row of defaults for the same key,
\* SheetCross2 and SheetFeb
En_Cross == Entry(1, <<2024, 2, 27>>, <<2024, 3, 2>>, Some(0 - 1), Some(3), Some(2),
                  Some(FromInt(50)), Some(FromInt(20)), Some(FromInt(30)),
                  Some(FromInt(5)), Some(<<"o", "k">>))
En_Bare == Entry(1, <<2024, 2, 27>>, <<2024, 3, 2>>, Nil, Nil, Nil, Nil, Nil, Nil, Nil, Nil)
En_Cross2 == Entry(2, <<2024, 2, 27>>, <<2024, 3, 2>>, Nil, Some(2), Some(1),
                   Nil, Nil, Some(FromInt(12)), Nil, Nil)
En_Feb == Entry(1, <<2024, 2, 1>>, <<2024, 2, 29>>, Nil, Nil, Some(0 - 5),
                Some(FromInt(40)), Some(FromInt(10)), Nil, Some(FromInt(15)), Nil)

EntryUniverse == {En_Cross, En_Bare, En_Cross2, En_Feb}

\* a payload holds at most this many entries
MaxEntries == 2

BatchPeriods ==
  { <<<<2024, 2, 27>>, <<2024, 3, 2>>>>, <<<<2024, 2, 1>>, <<2024, 2, 29>>>>,
    <<<<2024, 3, 2>>, <<2024, 2, 27>>>> }

Batches ==
  {[from_date |-> p[1], to_date |-> p[2], entries |-> es] :
     p \in BatchPeriods, es \in SeqsOver(EntryUniverse, MaxEntries)}

\* PUT /sheet-entries; the response keeps the rows committed before the
\* request
UpsertRequest(payload) ==
  /\ sheets' = BulkUpsertSheetEntries(payload).store
  /\ resp' = [op |-> "upsert", payload |-> payload, before |-> sheets,
              body |-> BulkUpsertSheetEntries(payload).body]
  /\ UNCHANGED <<employees, attendance, advances, payment, inflight>>

UpsertSheetEntries == \E payload \in Batches : UpsertRequest(payload)

InitSheet ==
  /\ employees = TableA
  /\ attendance = <<A_F1_27, A_F1_28>>
  /\ sheets = {}
  /\ advances = {}
  /\ payment = {}
  /\ resp = NoResponse
  /\ inflight = <<>>

NextSheet == UpsertSheetEntries \/ RangeReport \/ Range2Report

SpecSheet == InitSheet /\ [][NextSheet]_vars

SameKey(a, b) ==
  /\ a.employee_db_id = b.employee_db_id
  /\ a.from_date = b.from_date /\ a.to_date = b.to_date

\* the row an entry stands for: its own values, and the default of every
\* field it leaves unset
EntryRow(e) ==
  [employee_db_id |-> e.employee_db_id, from_date |-> e.from_date, to_date |-> e.to_date,
   pre_days_override |-> e.pre_days_override,
   cur_days_override |-> e.cur_days_override,
   leave_encashment_days |-> IF e.leave_encashment_days = Nil THEN 0 ELSE e.leave_encashment_days[1],
   allow_other |-> IF e.allow_other = Nil THEN Zero ELSE e.allow_other[1],
   eobi |-> IF e.eobi = Nil THEN Zero ELSE e.eobi[1],
   tax |-> IF e.tax = Nil THEN Zero ELSE e.tax[1],
   fine_adv_extra |-> IF e.fine_adv_extra = Nil THEN Zero ELSE e.fine_adv_extra[1],
   remarks |-> e.remarks, bank_cash |-> e.bank_cash]

\* the entries of a payload that are the last of their key
LastWritten(es) ==
  {es[k] : k \in {i \in DOMAIN es : \A j \in DOMAIN es : j > i => ~SameKey(es[i], es[j])}}

UpsertAccepted == resp.op = "upsert" /\ resp.body.ok

\* C14: a successful override upsert leaves at most one row per (employee
\* internal id, period start, period end); the row of every key the payload
\* names is exactly the row of the last entry written for the key, unset
\* fields at their defaults, whatever the key held before; every other row is
\* as it was.
C14_FullOverwrite ==
  [][(resp'.op = "upsert" /\ resp'.body.ok) =>
       /\ \A a, b \in sheets' : SameKey(a, b) => a = b
       /\ \A e \in LastWritten(resp'.payload.entries) : EntryRow(e) \in sheets'
       /\ \A r \in sheets' \cup sheets :
            (\A e \in LastWritten(resp'.payload.entries) : ~SameKey(r, e))
              => (r \in sheets' /\ r \in sheets)]_vars

\* a payload of one entry with every field unset, accepted when the key held
\* the row SheetCross: the row is now the row of defaults
C14_Witness ==
  /\ UpsertAccepted
  /\ SheetCross \in resp.before
  /\ resp.payload.entries = <<En_Bare>>
  /\ EntryRow(En_Bare) \in sheets /\ SheetCross \notin sheets

\* C15: a payload with an entry whose period is not the period of the
\* payload is rejected with PeriodMismatch and the committed override rows
\* are the same after the request as before it, the entries before the
\* mismatching one included.
C15_BatchRejected ==
  [][(/\ resp'.op = "upsert"
      /\ ~DateLT(resp'.payload.to_date, resp'.payload.from_date)
      /\ \E k \in DOMAIN resp'.payload.entries :
           \/ resp'.payload.entries[k].from_date # resp'.payload.from_date
           \/ resp'.payload.entries[k].to_date # resp'.payload.to_date)
       => /\ ~resp'.body.ok /\ resp'.body.error = "PeriodMismatch"
          /\ sheets' = sheets]_vars

\* a rejected payload whose first entry matches the period and would have
\* replaced a row of the store, and whose second entry does not
C15_Witness ==
  /\ resp.op = "upsert" /\ resp.body = Failed("PeriodMismatch")
  /\ resp.payload.entries = <<En_Bare, En_Feb>>
  /\ SheetCross \in resp.before /\ sheets = resp.before

-----------------------------------------------------------------------------
(* Overrides in the range reports *)

RangeAccepted == resp.op \in {"range", "range2"} /\ resp.body.ok

\* the employee of a row
EmployeeOf(r) ==
  employees[CHOOSE i \in DOMAIN employees : employees[i].id = r.employee_db_id]

\* the row of the answered range report for employee e when the override
\* of e for the period is sheet (Nil: none)
RowWith(e, sheet) ==
  IF resp.op = "range"
  THEN RangePay(e, RangeEmployeeId(e), WorkingDays, ToFloat(e.salary),
                RangeLoop(AttendanceIn(Period.start, Period.end), RangeEmployeeId(e),
                          DaysFrom(Period.start, Period.end)),
                SheetFields(sheet), AdvanceBy(Label, e.id),
                PaidStatusBy(Label, RangeEmployeeId(e)))
  ELSE Range2Pay(e, RangeEmployeeId(e), WorkingDays, ToFloat(e.salary),
                 Range2Loop(AttendanceIn(Period.start, Period.end), RangeEmployeeId(e),
                            DaysFrom(Period.start, Period.end), Period.end[2]),
                 SheetFields(sheet), AdvanceBy(Label, e.id))

\* the row when the store holds no override at all
BareRow(e) == RowWith(e, Nil)

\* C16: a range report of either variant applies an override only when its
\* period start is the from date and its period end is the to date of the
\* request: the row of an employee with no such override is the row the
\* report gives when the store holds no override, whatever overrides of
\* other periods are stored; the row of an employee with such an override
\* carries its values.
C16_ExactPeriod ==
  RangeAccepted =>
    \A i \in DOMAIN Rows :
      IF OverrideOf(Rows[i]) = {}
      THEN Rows[i] = BareRow(EmployeeOf(Rows[i]))
      ELSE \A x \in OverrideOf(Rows[i]) :
             /\ Rows[i].leave_encashment_days = x.leave_encashment_days
             /\ Rows[i].allow_other = x.allow_other
             /\ Rows[i].eobi = x.eobi /\ Rows[i].tax = x.tax
             /\ Rows[i].fine_adv_extra = x.fine_adv_extra
             /\ Rows[i].remarks = x.remarks

\* a range report for 2024-02-27..2024-03-02 while the only override of the
\* store is the one of employee 1 for 2024-02-01..2024-02-29, which overlaps
\* the period: the row of employee 1 shows none of it
C16_Witness ==
  /\ RangeAccepted /\ sheets = {SheetFeb}
  /\ Period = [start |-> <<2024, 2, 27>>, end |-> <<2024, 3, 2>>]
  /\ \E i \in DOMAIN Rows :
       /\ Rows[i].employee_db_id = 1
       /\ Rows[i].leave_encashment_days = 0 /\ RIsZero(Rows[i].allow_other)
       /\ RIsZero(Rows[i].eobi)

\* max(0, override or 0) of a field of the override stored for the row
ClampedOverride(r, field) ==
  IF OverrideOf(r) = {} THEN 0
  ELSE LET o == (CHOOSE x \in OverrideOf(r) : TRUE)[field]
       IN IF o = Nil THEN 0 ELSE IF o[1] < 0 THEN 0 ELSE o[1]

\* C17 as the specification states it: in every row of a range report of
\* either variant pre_days is max(0, pre_days_override or 0) and cur_days is
\* max(0, cur_days_override or 0), so that neither is negative even when a
\* negative override is stored.
C17_Stated ==
  RangeAccepted =>
    \A i \in DOMAIN Rows :
      /\ Rows[i].pre_days = ClampedOverride(Rows[i], "pre_days_override")
      /\ Rows[i].cur_days = ClampedOverride(Rows[i], "cur_days_override")

\* the values the pre_days_override and cur_days_override of a stored
\* override are replaced with
AltOverrides == {<<Nil, Nil>>, <<Some(0 - 1), Some(9)>>, <<Some(9), Some(0 - 1)>>}

\* the row of the answered range report on a store that differs in the
\* pre_days_override and cur_days_override of the row's override
AltRow(r, alt) ==
  IF OverrideOf(r) = {} THEN r
  ELSE RowWith(EmployeeOf(r),
               Some([(CHOOSE x \in OverrideOf(r) : TRUE)
                       EXCEPT !.pre_days_override = alt[1],
                              !.cur_days_override = alt[2]]))

AltRows(alt) == [i \in DOMAIN Rows |-> AltRow(Rows[i], alt)]

-----------------------------------------------------------------------------
(* Independence of the rows and of the order of the stored records *)

\* the row of employee e in the answered report when the attendance records
\* of the period are att
RowOn(e, att) ==
  IF resp.op = "report" THEN MonthRow(e, resp.month, att)
  ELSE IF resp.op = "range" THEN RangeRow(e, Period.start, Period.end, Label, att)
  ELSE Range2Row(e, Period.start, Period.end, Label, att)

\* the attendance records of the period without those of the employee of
\* row r
WithoutRecordsOf(r) ==
  SelectSeq(AttendanceIn(Period.start, Period.end),
            LAMBDA a : \A k \in RecordsOf(r) : attendance[k] # a)

\* C19 as the specification states it, for the attendance records: for any
\* two distinct employees A and B of a report, taking away the attendance
\* records that belong to A leaves every field of the row of B unchanged,
\* also when the badge number of one is the serial number of the other.
\* (Overrides and advance deductions are stored by internal id and are left
\* as they are.)
C19_Stated ==
  Accepted =>
    \A i, j \in DOMAIN Rows :
      i # j => RowOn(EmployeeOf(Rows[j]), WithoutRecordsOf(Rows[i])) = Rows[j]

\* the rows of the answered report when the attendance records of the
\* period are att
RowsOn(att) == [i \in DOMAIN Rows |-> RowOn(EmployeeOf(Rows[i]), att)]

\* C20 as the specification states it, for the attendance records: the rows
\* of a report are the same when the store returns the attendance records
\* of the period in the opposite order.
C20_Stated ==
  Accepted => RowsOn(Reverse(AttendanceIn(Period.start, Period.end))) = Rows

-----------------------------------------------------------------------------
(* list_payroll_sheet_entries (GET /sheet-entries) and the behaviours of   *)
(* all the handlers together                                               *)

\* order_by(PayrollSheetEntry.employee_db_id.asc())
RECURSIVE OrderByEmployee(_)
OrderByEmployee(rows) ==
  IF rows = {} THEN <<>>
  ELSE LET first == CHOOSE r \in rows : \A x \in rows : r.employee_db_id <= x.employee_db_id
       IN <<first>> \o OrderByEmployee(rows \ {first})

SheetEntriesOf(s, t) ==
  IF IsNil(s) \/ IsNil(t) THEN Failed("InvalidPeriod")
  ELSE IF DateLT(Val(t), Val(s)) THEN Failed("InvalidRange")
  ELSE [ok |-> TRUE, error |-> "none",
        rows |-> OrderByEmployee({r \in sheets : r.from_date = Val(s) /\ r.to_date = Val(t)})]

\* list_payroll_sheet_entries(from_date, to_date)
ListPayrollSheetEntries(from_date, to_date) ==
  SheetEntriesOf(ParseDate(from_date), ParseDate(to_date))

ListRequest(q) ==
  /\ resp' = [op |-> "list", from_date |-> q[1], to_date |-> q[2],
              body |-> ListPayrollSheetEntries(q[1], q[2])]
  /\ UNCHANGED <<employees, attendance, sheets, advances, payment, inflight>>

ListSheetEntries == \E q \in RangeInputs : ListRequest(q)

\* the override payloads, payment-status keys and payment-status writes of
\* the behaviours of all the handlers
PayrollBatches ==
  { [from_date |-> <<2024, 2, 27>>, to_date |-> <<2024, 3, 2>>, entries |-> <<En_Cross>>],
    [from_date |-> <<2024, 2, 27>>, to_date |-> <<2024, 3, 2>>, entries |-> <<En_Bare>>],
    [from_date |-> <<2024, 2, 27>>, to_date |-> <<2024, 3, 2>>, entries |-> <<En_Cross2, En_Feb>>],
    [from_date |-> <<2024, 3, 2>>, to_date |-> <<2024, 2, 27>>, entries |-> <<En_Cross>>] }

PayrollKeys ==
  {<<M_2024_02, S_F1>>, <<M_2024_02, S_2>>, <<M_2024_13, S_F1>>, <<M_2024_Feb, S_F1>>}

PayrollWrites ==
  {<<k[1], k[2], st>> : k \in PayrollKeys,
                        st \in {Some(PAID), Some(<<"U", "N", "P", "A", "I", "D">>)}}

PutSheetEntries == \E payload \in PayrollBatches : UpsertRequest(payload)
GetStatusOfKey == \E k \in PayrollKeys : GetRequest(k[1], k[2])
PutStatus == \E w \in PayrollWrites : SetRequest(w[1], w[2], w[3])

InitPayroll ==
  /\ employees = TableA
  /\ attendance = <<A_F1_27, A_F1_28>>
  /\ sheets = {}
  /\ advances = {Advance(1, M_2024_02, 40)}
  /\ payment = {}
  /\ resp = NoResponse
  /\ inflight = <<>>

NextPayroll ==
  \/ Report \/ RangeReport \/ Range2Report \/ ListSheetEntries
  \/ PutSheetEntries \/ GetStatusOfKey \/ PutStatus

SpecPayroll == InitPayroll /\ [][NextPayroll]_vars

-----------------------------------------------------------------------------
(* Properties of the behaviours of all the handlers *)

StoresUnchanged == UNCHANGED <<employees, attendance, sheets, advances, payment>>

\* the calendar days from start to end, counted one by one
CalendarDays(start, end) ==
  {d \in (start[1]..end[1]) \X (1..12) \X (1..31) :
     ValidDate(d[1], d[2], d[3]) /\ DateLE(start, d) /\ DateLE(d, end)}

\* a month label of two integers whose month is not one of 1..12
MonthOutOfRange(month) ==
  /\ Len(Split(month, "-")) = 2
  /\ ~IsNil(ParseInt(Split(month, "-")[1])) /\ ~IsNil(ParseInt(Split(month, "-")[2]))
  /\ Val(ParseInt(Split(month, "-")[2])) \notin 1..12

\* a from/to pair of two dates, the first after the second
Reversed(from_date, to_date) ==
  /\ ~IsNil(ParseDate(from_date)) /\ ~IsNil(ParseDate(to_date))
  /\ DateLT(Val(ParseDate(to_date)), Val(ParseDate(from_date)))

\* C21: a range report, a sheet-entry listing and an override upsert with
\* from after to answer InvalidRange, a month report whose month is outside
\* 1..12 answers InvalidPeriod, in both cases without rows and without a
\* write; every computed range report has working_days equal to the number
\* of calendar days from start to end, which is at least 1, and 1 when from
\* and to are the same day.
C21_PeriodFirst ==
  /\ [][/\ (resp'.op \in {"range", "range2", "list"} /\ Reversed(resp'.from_date, resp'.to_date))
              => (resp'.body = Failed("InvalidRange") /\ StoresUnchanged)
        /\ (resp'.op = "upsert" /\ DateLT(resp'.payload.to_date, resp'.payload.from_date))
              => (resp'.body = Failed("InvalidRange") /\ StoresUnchanged)
        /\ (resp'.op = "report" /\ MonthOutOfRange(resp'.month))
              => (resp'.body = Failed("InvalidPeriod") /\ StoresUnchanged)]_vars
  /\ [](RangeAccepted =>
          \A i \in DOMAIN Rows :
            /\ Rows[i].working_days = Cardinality(CalendarDays(Period.start, Period.end))
            /\ Rows[i].working_days >= 1
            /\ Period.start = Period.end => Rows[i].working_days = 1)

\* a range report with from after to, rejected while the store holds an
\* override and a payment-status row
C21_Witness ==
  /\ resp.op = "range" /\ resp.body = Failed("InvalidRange")
  /\ Reversed(resp.from_date, resp.to_date)
  /\ sheets # {} /\ payment # {}

\* C22: a month report, a range report of either variant and a sheet-entry
\* listing leave every employee, attendance, override, advance-deduction
\* and payment-status record as it was; a payment-status write, whose 'paid'
\* case computes a month report, changes no record but the payment-status
\* row of its own key.  A report that shows 'unpaid' for an identifier
\* without a status row stores no row for it.
C22_ReportsReadOnly ==
  [][/\ resp'.op \in {"report", "range", "range2", "list"} => StoresUnchanged
     /\ resp'.op = "set" =>
          /\ UNCHANGED <<employees, attendance, sheets, advances>>
          /\ \A r \in (payment \ payment') \cup (payment' \ payment) :
               r.month = resp'.month /\ r.employee_id = resp'.employee_id]_vars

\* a month report that shows 'unpaid' for an employee whose key has no
\* payment-status row, while the store holds a row of another key
C22_Witness ==
  /\ Accepted /\ resp.op = "report" /\ payment # {}
  /\ \E i \in DOMAIN Rows :
       /\ Rows[i].paid_status = UNPAID
       /\ RowsOf(resp.month, Rows[i].employee_id) = {}

-----------------------------------------------------------------------------
(* Overtime *)

\* the records of the row that carry a non-zero overtime rate
RatedOf(r) == {k \in RecordsOf(r) : ~RIsZero(attendance[k].overtime_rate)}

\* the rate of the chronologically last of them, 0 when there is none
LastRate(r) ==
  IF RatedOf(r) = {} THEN Zero
  ELSE attendance[CHOOSE k \in RatedOf(r) :
                    \A m \in RatedOf(r) : DateLE(attendance[m].date, attendance[k].date)].overtime_rate

\* minutes / 60 x rate summed over a set of records
RECURSIVE OvertimeSum(_)
OvertimeSum(ks) ==
  IF ks = {} THEN Zero
  ELSE LET k == CHOOSE x \in ks : TRUE
       IN RAdd(RMul(Rat(attendance[k].overtime_minutes, 60), attendance[k].overtime_rate),
               OvertimeSum(ks \ {k}))

\* C23 as the specification states it: in every row of every report
\* overtime_rate is the rate of the chronologically last attendance day of
\* the period with a non-zero rate, 0 when there is none, and overtime_pay
\* is the sum of minutes / 60 x rate over the days with both non-zero.
C23_Stated ==
  Accepted =>
    \A i \in DOMAIN Rows :
      /\ Rows[i].overtime_rate = LastRate(Rows[i])
      /\ Rows[i].overtime_pay =
           OvertimeSum({k \in RatedOf(Rows[i]) : attendance[k].overtime_minutes # 0})

-----------------------------------------------------------------------------
(* The days paid by payroll2_range_report *)

Range2Accepted == resp.op = "range2" /\ resp.body.ok

-----------------------------------------------------------------------------
(* The employee link of a payment-status row *)

\* the internal ids of the employees whose external identifier, as the
\* month report forms it, is employee_id
IdsOf(employee_id) ==
  {employees[i].id : i \in {k \in DOMAIN employees : MonthEmployeeId(employees[k]) = employee_id}}

\* C25 as the specification states it: after a successful set the link of
\* the row is the internal id of an employee whose external identifier
\* (first non-empty of badge number, serial number, internal id) is the
\* employee_id of the request, and is null only when there is no such
\* employee.
C25_Stated ==
  (resp.op = "set" /\ resp.body.ok) =>
    IF IdsOf(resp.employee_id) = {}
    THEN Val(resp.body.row).employee_db_id = Nil
    ELSE Val(resp.body.row).employee_db_id \in {Some(id) : id \in IdsOf(resp.employee_id)}

-----------------------------------------------------------------------------
(* Range reports over periods of several months *)

\* "YYYY-MM-DD"
DateStr(d) == MonthLabel(d) \o <<"-">> \o ZeroPad(NatStr(d[3]), 2)

\* attendance of 'F1' around the turn of the year and one year apart
A_23_02_28 == Att(S_F1, <<2023, 2, 28>>, Some(PRESENT), Nil, 0, 0, 0, 0, 0)
A_23_12_31 == Att(S_F1, <<2023, 12, 31>>, Some(LATE), Nil, 0, 0, 5, 10, 0)
A_24_01_01 == Att(S_F1, <<2024, 1, 1>>, Some(PRESENT), Nil, 60, 40, 0, 0, 0)
A_24_02_01 == Att(S_F1, <<2024, 2, 1>>, Some(LATE), Nil, 0, 0, 0, 0, 0)

LongAttendance ==
  {q \in SeqsOver({A_23_02_28, A_23_12_31, A_24_01_01, A_24_02_01}, MaxAttendance) :
     \A i, j \in 1..Len(q) : i # j => q[i] # q[j]}

\* periods within one month, across the turn of the year, and longer than
\* eleven months
LongInputs ==
  { <<DateStr(<<2023, 12, 31>>), DateStr(<<2024, 1, 1>>), Nil>>,
    <<DateStr(<<2023, 12, 31>>), DateStr(<<2024, 2, 1>>), Nil>>,
    <<DateStr(<<2023, 2, 28>>), DateStr(<<2024, 2, 1>>), Nil>>,
    <<DateStr(<<2024, 2, 1>>), DateStr(<<2024, 2, 1>>), Some(M_2024_02)>> }

LongRangeReport == \E q \in LongInputs : RangeRequest(q)
LongRange2Report == \E q \in LongInputs : Range2Request(q)

InitLong ==
  /\ employees = TableA
  /\ attendance \in LongAttendance
  /\ sheets = {}
  /\ advances = {}
  /\ payment = {}
  /\ resp = NoResponse
  /\ inflight = <<>>

NextLong == LongRangeReport \/ LongRange2Report

SpecLong == InitLong /\ [][NextLong]_vars

\* the label of a present or late day in the lists of payroll2
DayLabel(a) ==
  IF Strip(Lower(OrEmpty(a.status))) = LATE
  THEN DayMonthStr(a.date) \o <<" ", "(", "L", ")">>
  ELSE DayMonthStr(a.date)

\* the present and late records of a row in chronological order: those of
\* the calendar month of the end of the period when cur, the others
\* otherwise
PresentRecords(r, cur) ==
  LET mine == {attendance[k] : k \in {x \in RecordsOf(r) :
                  Strip(Lower(OrEmpty(attendance[x].status))) \in {PRESENT, LATE}}}
      inEndMonth(a) == a.date[1] = Period.end[1] /\ a.date[2] = Period.end[2]
      days == SelectSeq(DaysFrom(Period.start, Period.end),
                        LAMBDA d : \E a \in mine : a.date = d /\ (inEndMonth(a) <=> cur))
  IN [i \in DOMAIN days |-> DayLabel(CHOOSE a \in mine : a.date = days[i])]

\* C26 as the specification states it: in every row of the payroll2 range
\* report, for every period, present_dates_cur lists in chronological order
\* exactly the present and late days of the calendar month (year and month)
\* of the end of the period, present_dates_prev the other present and late
\* days, and the two lengths add up to presents_total.
C26_Stated ==
  Range2Accepted =>
    \A i \in DOMAIN Rows :
      /\ Rows[i].present_dates_cur = PresentRecords(Rows[i], TRUE)
      /\ Rows[i].present_dates_prev = PresentRecords(Rows[i], FALSE)
      /\ Len(Rows[i].present_dates_prev) + Len(Rows[i].present_dates_cur)
           = Rows[i].presents_total

-----------------------------------------------------------------------------
(* The two range reports side by side *)

\* the answer of the other range report to the answered request
Counterpart ==
  IF resp.op = "range"
  THEN Payroll2RangeReport(resp.from_date, resp.to_date, resp.month)
  ELSE PayrollRangeReport(resp.from_date, resp.to_date, resp.month)

SharedFields ==
  {"employee_db_id", "employee_id", "present_days", "late_days", "absent_days",
   "paid_leave_days", "unpaid_leave_days", "leave_encashment_days", "total_days",
   "total_salary", "overtime_rate", "overtime_pay", "fine_adv", "gross_pay", "net_pay"}

SameRows(rows, other) ==
  /\ Len(rows) = Len(other)
  /\ \A i \in DOMAIN rows : \A f \in SharedFields : rows[i][f] = other[i][f]

\* C27: on the same from/to, month label and stored records
\* payroll_range_report and payroll2_range_report answer with the same
\* employees in the same order, with equal present_days, late_days,
\* absent_days, paid_leave_days, unpaid_leave_days, leave_encashment_days,
\* total_days, total_salary, overtime_rate, overtime_pay, fine_adv,
\* gross_pay and net_pay in every row, and with equal summary employees,
\* total_gross and total_net; a request one rejects the other rejects with
\* the same error.
C27_RangeReportsAgree ==
  resp.op \in {"range", "range2"} =>
    /\ Counterpart.ok = resp.body.ok /\ Counterpart.error = resp.body.error
    /\ resp.body.ok =>
         /\ SameRows(Rows, Counterpart.rows)
         /\ Counterpart.summary.employees = resp.body.summary.employees
         /\ Counterpart.summary.total_gross = resp.body.summary.total_gross
         /\ Counterpart.summary.total_net = resp.body.summary.total_net

\* a range report of payroll.py with two rows, the first with an override,
\* overtime, a fine and a net pay below the gross pay
C27_Witness ==
  /\ resp.op = "range" /\ resp.body.ok /\ Len(Rows) = 2
  /\ OverrideOf(Rows[1]) # {}
  /\ ~RIsZero(Rows[1].overtime_pay) /\ ~RIsZero(Rows[1].fine_adv)
  /\ Rows[1].net_pay # Rows[1].gross_pay
  /\ Rows[1].late_days > 0

-----------------------------------------------------------------------------
(* The snapshot of a paid row *)

\* the step is a payment-status write for the key of row r
SetFor(r) ==
  resp'.op = "set" /\ resp'.month = r.month /\ resp'.employee_id = r.employee_id

\* the store still holds a paid row of the key of r with the snapshot of r
StillPaid(r) ==
  \E x \in payment' : /\ x.month = r.month /\ x.employee_id = r.employee_id
                      /\ x.status = PAID /\ x.net_pay_snapshot = r.net_pay_snapshot

\* C28: a row stored as paid keeps its status and its net-pay snapshot over
\* every override upsert, report, listing, get for any key and set for
\* another key; only a set for the same key changes them.
C28_SnapshotFrozen ==
  [][\A r \in payment : (r.status = PAID /\ ~SetFor(r)) => StillPaid(r)]_vars

\* a range report made after an override upsert computes, for the employee of
\* a paid row, a net pay the overrides changed and the snapshot does not show
C28_Witness ==
  /\ resp.op = "range" /\ resp.body.ok
  /\ \E i \in DOMAIN Rows : \E r \in payment :
       /\ r.employee_id = Rows[i].employee_id
       /\ r.status = PAID /\ ~IsNil(r.net_pay_snapshot)
       /\ OverrideOf(Rows[i]) # {}
       /\ Rows[i].net_pay # BareRow(EmployeeOf(Rows[i])).net_pay
       /\ Rows[i].net_pay # Val(r.net_pay_snapshot)

-----------------------------------------------------------------------------
(* A paid write for a month the period resolver rejects *)

\* the step is a set to 'paid' whose month label _parse_month rejects
PaidForBadMonth ==
  /\ resp'.op = "set" /\ NormalStatus(resp'.status) = PAID
  /\ ~ParseMonth(resp'.month).ok

\* C29: a set to 'paid' for a month label the period resolver rejects fails
\* with InvalidPeriod before anything is written: no row is created and an
\* existing row keeps its status, snapshot and link.
C29_BadMonthWritesNothing ==
  [][PaidForBadMonth =>
       /\ resp'.body = [ok |-> FALSE, error |-> "InvalidPeriod", row |-> Nil]
       /\ payment' = payment]_vars

\* a rejected paid write for a key whose row an earlier unpaid write linked
\* to an employee
C29_Witness ==
  /\ resp.op = "set" /\ NormalStatus(resp.status) = PAID
  /\ ~ParseMonth(resp.month).ok
  /\ resp.body.error = "InvalidPeriod"
  /\ ~IsNil(resp.found)
  /\ \E r \in payment : /\ r.month = resp.month /\ r.employee_id = resp.employee_id
                        /\ r.status = UNPAID /\ ~IsNil(r.employee_db_id)

=============================================================================
